---- MODULE Spec2Model ----
(***************************************************************************)
(* Model of the session / cache orchestration of the auto-quote backend    *)
(* (vehicle-repair-agent/frontend/src/App.tsx, server part).               *)
(*                                                                         *)
(* The backend is a single-threaded event loop.  Every action below is one *)
(* run-to-completion segment of a handler, a timer callback or a poll      *)
(* loop: the code between two suspension points (await).                   *)
(*                                                                         *)
(* Optional fields (results?, analysis?, result?, quotation?) are          *)
(* sequences of length 0 (absent) or 1 (present).                          *)
(***************************************************************************)
EXTENDS Integers, Sequences, FiniteSets, TLC

----------------------------------------------------------------------------
(* Bounds of the model *)

\* accepted start requests (quote rounds + bookings) in one behaviour
MaxStarts == 1
\* session objects alive at a time; accepted start requests in one
\* behaviour of the specification of concurrent sessions
MaxSessions == 2
\* values of Date.now() are 0..MaxClock
MaxClock == 1
\* maxWaitTime / pollInterval of the poll loops, scaled down (the code: 60)
MaxWaitPolls == 2
\* process restarts in one behaviour
MaxRestarts == 1
\* length of the shops array of a call-shops request
MaxShops == 2
\* writes to a session file that fail in one behaviour
MaxWriteFailures == 1
\* calls created at the remote call service in one behaviour
MaxCalls == 2
\* cache reads (getCachedResultsAsync) started
MaxGets == 2
\* cache writes (updateCacheAsync) started
MaxPuts == 2
MaxLen == 3
MaxSearches == 2
MaxPolls == 2
\* length of the results array given to analyzeAndRankQuotes on its own
MaxResults == 3

\* maxWaitMs of a wait loop in units of pollIntervalMs, the latency of a
\* status request and the lateness of a timer in the same unit, and the
\* maxAttempts argument of pollYutoriResearch in the wait loops
MaxWait == 2
MaxLatency == 1
MaxWaitAttempts == 2
\* length of the shops array of a call-shops request taken on its own
MaxListLen == 5
\* length of the shops array either search of the comprehensive search
\* returns
MaxFound == 2

----------------------------------------------------------------------------
(* Values *)

Absent == <<>>
Some(x) == <<x>>
IsPresent(o) == Len(o) > 0
Get(o) == o[1]

Min(a, b) == IF a < b THEN a ELSE b
Max(a, b) == IF a > b THEN a ELSE b

\* Map.set / object property assignment
MapSet(m, k, v) == [x \in (DOMAIN m) \cup {k} |-> IF x = k THEN v ELSE m[x]]

EmptyMap == [x \in {} |-> 0]

\* remote call status vocabulary; "in-progress" stands for every
\* non-terminal status (queued, ringing, in-progress)
TerminalStatuses == {"ended", "failed"}

\* prices a shop quotes in the session model
QuotedPrices == {450}

\* values of the limit field of a call-shops request (default 2)
Limits == {-1, 0, 1, 2, 3}

\* Array.prototype.slice(0, end)
Slice(s, end) ==
    LET e == IF end < 0 THEN Max(Len(s) + end, 0) ELSE Min(end, Len(s))
    IN  SubSeq(s, 1, e)

----------------------------------------------------------------------------
(* Quote ranking *)

\* a filter predicate that also accepts a quotation with price 0
HasValidQuote_ZeroPrice(r) == IsPresent(r.quotation) /\ Get(r.quotation) >= 0

\* r.quotation && r.quotation.price > 0
HasValidQuote(r) == IsPresent(r.quotation) /\ Get(r.quotation) > 0

RECURSIVE FilterQuotes(_)
FilterQuotes(results) ==
    IF results = <<>> THEN <<>>
    ELSE IF HasValidQuote(Head(results))
         THEN <<Head(results)>> \o FilterQuotes(Tail(results))
         ELSE FilterQuotes(Tail(results))

\* an insertion that puts r before the elements of its own price
RECURSIVE InsertByPrice_TiesFirst(_, _)
InsertByPrice_TiesFirst(r, sorted) ==
    IF sorted = <<>> THEN <<r>>
    ELSE IF Get(Head(sorted).quotation) < Get(r.quotation)
         THEN <<Head(sorted)>> \o InsertByPrice_TiesFirst(r, Tail(sorted))
         ELSE <<r>> \o sorted

\* insert r after every element whose price is <= its own (stable)
RECURSIVE InsertByPrice(_, _)
InsertByPrice(r, sorted) ==
    IF sorted = <<>> THEN <<r>>
    ELSE IF Get(Head(sorted).quotation) <= Get(r.quotation)
         THEN <<Head(sorted)>> \o InsertByPrice(r, Tail(sorted))
         ELSE <<r>> \o sorted

RECURSIVE SortByPrice(_)
\* Array.prototype.sort with the price comparator (stable)
SortByPrice(s) ==
    IF s = <<>> THEN <<>>
    ELSE InsertByPrice(s[Len(s)], SortByPrice(SubSeq(s, 1, Len(s) - 1)))

\* Number.prototype.toFixed(2) on a price in whole dollars: the digits
\* before and after the decimal point
toFixed2(price) == [dollars |-> price, cents |-> 0]

\* an analysis whose summary counts every result as a quote received
RankedAnalysis_CountsAll(results, ranked) ==
    [ranked |-> ranked,
     bestOption |-> IF ranked = <<>> THEN Absent ELSE Some(ranked[1]),
     summary |-> [analyzed |-> Len(results),
                  noQuotations |-> (Len(ranked) = 0),
                  received |-> Some(Len(results)),
                  lines |-> [i \in 1..Len(ranked) |->
                                [shopName |-> ranked[i].shopName,
                                 price |-> toFixed2(Get(ranked[i].quotation))]],
                  recommended |-> IF Len(ranked) = 0
                                  THEN Absent
                                  ELSE Some(ranked[1].shopName)]]

\* the value analyzeAndRankQuotes returns, given its sorted list.  The
\* summary text is the record of what it says: the number of results
\* analyzed, then either that no quotations were obtained or the number of
\* quotes received, one line per ranked result and the recommended shop.
RankedAnalysis(results, ranked) ==
    [ranked |-> ranked,
     bestOption |-> IF ranked = <<>> THEN Absent ELSE Some(ranked[1]),
     summary |-> [analyzed |-> Len(results),
                  noQuotations |-> (Len(ranked) = 0),
                  received |-> IF Len(ranked) = 0 THEN Absent
                               ELSE Some(Len(ranked)),
                  lines |-> [i \in 1..Len(ranked) |->
                                [shopName |-> ranked[i].shopName,
                                 price |-> toFixed2(Get(ranked[i].quotation))]],
                  recommended |-> IF Len(ranked) = 0
                                  THEN Absent
                                  ELSE Some(ranked[1].shopName)]]

\* filter, sort, summarize (the sorted list is computed once)
analyzeAndRankQuotes(results) ==
    CHOOSE a \in {RankedAnalysis(rs, ranked) :
                    rs \in {results},
                    ranked \in {SortByPrice(FilterQuotes(results))}} : TRUE

\* a ranking that sorts the array it is given
ResultsAfterRanking_Sorted(results) == SortByPrice(FilterQuotes(results))

\* the array given to analyzeAndRankQuotes after the call: filter returns
\* a new array and sort runs on a copy of that, so it is as it was
ResultsAfterRanking(results) == results

----------------------------------------------------------------------------
(* State *)

VARIABLES
    vapiClient,        \* TRUE iff the voice-call credentials are configured
    now,               \* the last value read from Date.now()
    starts,            \* accepted start requests so far
    restarts,          \* process restarts so far
    writeFailures,     \* failed session-file writes so far
    remote,            \* the call service: call number -> call data
    sessionHeap,       \* CallSession objects: reference -> fields
    activeSessions,    \* Map sessionId -> reference
    callSessionsFile,  \* content of call_sessions.json: sessionId -> fields
    callTask,          \* background work per start: poll loop / timer
    bookingHeap,       \* BookingSession objects: reference -> fields
    activeBookings,    \* Map bookingId -> reference
    bookingSessionsFile, \* content of booking_sessions.json
    bookingTask,       \* background work per booking: poll loop / timer
    response,          \* the response sent by the last step, if any
    dynamoDbClient,    \* TRUE iff the AWS credentials are configured
    cacheFile,         \* entries of repair_shops_cache.json: key -> entry
    dynamoTable,       \* items of the DynamoDB table: pk -> item
    cacheGets,         \* the calls of getCachedResultsAsync, in start order
    cachePuts,         \* the calls of updateCacheAsync, in start order
    YUTORI_API_KEY,    \* TRUE iff the research API key is configured
    searches,          \* the /api/search-shops requests, in arrival order
    keyIn,             \* the last string given to getCacheKey
    keyOut,            \* the key it returned
    rankIn,            \* the results array given to analyzeAndRankQuotes
    rankOut,           \* the calls of analyzeAndRankQuotes on it, in order
    waitLoop,          \* a poll-until-terminal loop of the API clients
    callPlan,          \* the shops a call-shops request selects and calls
    comprehensive      \* a call of findRepairShopsComprehensive

cacheVars == <<dynamoDbClient, cacheFile, dynamoTable, cacheGets, cachePuts>>
searchVars == <<YUTORI_API_KEY, searches>>
keyVars == <<keyIn, keyOut>>
rankVars == <<rankIn, rankOut>>
waitVars == <<waitLoop>>
planVars == <<callPlan>>
mergeVars == <<comprehensive>>
pureVars == <<keyVars, rankVars, waitVars, planVars, mergeVars>>
appVars == <<cacheVars, searchVars, pureVars>>
procVars == <<vapiClient, appVars, now, starts, restarts>>
callVars == <<sessionHeap, activeSessions, callSessionsFile, callTask>>

bookingVars == <<bookingHeap, activeBookings, bookingSessionsFile, bookingTask>>

vars == <<procVars, writeFailures, remote, callVars, bookingVars, response>>

Refs == 1..MaxSessions
NoObject == [status |-> "unallocated"]
NoTask == [pc |-> "none"]
NoResponse == [kind |-> "none"]

Range(f) == {f[x] : x \in DOMAIN f}

\* the smallest reference that names no object and no background task
NewRef(heap, tasks) ==
    CHOOSE r \in DOMAIN heap :
        /\ heap[r] = NoObject /\ tasks[r] = NoTask
        /\ \A q \in DOMAIN heap :
              (heap[q] = NoObject /\ tasks[q] = NoTask) => r <= q

\* garbage collection: an object that is neither in the map nor held by a
\* poll loop is unreachable
Collect(heap, map, tasks) ==
    [r \in DOMAIN heap |->
        IF r \in Range(map) \/ tasks[r].pc \in {"sleep", "get"}
        THEN heap[r] ELSE NoObject]

\* identifiers of calls created at the remote service
CallId(n) == <<"call", n>>
NextCall == Len(remote) + 1

\* JSON.stringify of the whole map: every id with the fields of its object.
\* The fields are strings, numbers, arrays and plain objects, and an
\* undefined field is omitted (Absent), so parsing the text gives the same
\* content back.
Snapshot(map, heap) == [id \in DOMAIN map |-> heap[map[id]]]

\* The state of one session store while a step runs: the objects, the Map,
\* the file, the background tasks and the number of writes that failed.
CallStore ==
    [heap |-> sessionHeap, map |-> activeSessions, file |-> callSessionsFile,
     tasks |-> callTask, fails |-> 0]

\* saveCallSessions that never reaches the file
saveCallSessions_NoWrite(st, ok) ==
    IF ok THEN st ELSE [st EXCEPT !.fails = @ + 1]

\* saveCallSessions: ok = FALSE is a writeFileSync that throws (caught, logged)
saveCallSessions(st, ok) ==
    IF ok THEN [st EXCEPT !.file = Snapshot(st.map, st.heap)]
    ELSE [st EXCEPT !.fails = @ + 1]

\* persistSession in which a failed write raises before the Map is updated
persistSession_Raises(st, sessionId, r, ok) ==
    IF ok THEN saveCallSessions([st EXCEPT !.map = MapSet(st.map, sessionId, r)], ok)
    ELSE [st EXCEPT !.fails = @ + 1]

persistSession(st, sessionId, r, ok) ==
    saveCallSessions([st EXCEPT !.map = MapSet(st.map, sessionId, r)], ok)

\* the step ends: st becomes the state of the call-session store
CommitCalls(st) ==
    \E s \in {st} :
        /\ writeFailures + s.fails <= MaxWriteFailures
        /\ writeFailures' = writeFailures + s.fails
        /\ sessionHeap' = Collect(s.heap, s.map, s.tasks)
        /\ activeSessions' = s.map
        /\ callSessionsFile' = s.file
        /\ callTask' = s.tasks

BookingStore ==
    [heap |-> bookingHeap, map |-> activeBookings, file |-> bookingSessionsFile,
     tasks |-> bookingTask, fails |-> 0]

\* saveBookingSessions: ok = FALSE is a writeFileSync that throws
saveBookingSessions(st, ok) ==
    IF ok THEN [st EXCEPT !.file = Snapshot(st.map, st.heap)]
    ELSE [st EXCEPT !.fails = @ + 1]

persistBooking(st, bookingId, r, ok) ==
    saveBookingSessions([st EXCEPT !.map = MapSet(st.map, bookingId, r)], ok)

\* the step ends: st becomes the state of the booking store
CommitBookings(st) ==
    \E s \in {st} :
        /\ writeFailures + s.fails <= MaxWriteFailures
        /\ writeFailures' = writeFailures + s.fails
        /\ bookingHeap' = Collect(s.heap, s.map, s.tasks)
        /\ activeBookings' = s.map
        /\ bookingSessionsFile' = s.file
        /\ bookingTask' = s.tasks

----------------------------------------------------------------------------
(* Initial state: the process has started with empty session files *)

Init ==
    /\ vapiClient \in BOOLEAN
    /\ now = 0
    /\ starts = 0
    /\ restarts = 0
    /\ writeFailures = 0
    /\ remote = <<>>
    /\ sessionHeap = [r \in Refs |-> NoObject]
    /\ activeSessions = EmptyMap
    /\ callSessionsFile = EmptyMap
    /\ callTask = [r \in Refs |-> NoTask]
    /\ bookingHeap = [r \in Refs |-> NoObject]
    /\ activeBookings = EmptyMap
    /\ bookingSessionsFile = EmptyMap
    /\ bookingTask = [r \in Refs |-> NoTask]
    /\ response = NoResponse
    /\ dynamoDbClient \in BOOLEAN
    /\ cacheFile = EmptyMap
    /\ dynamoTable = EmptyMap
    /\ cacheGets = <<>>
    /\ cachePuts = <<>>
    /\ YUTORI_API_KEY \in BOOLEAN
    /\ searches = <<>>
    /\ keyIn = <<>>
    /\ keyOut = <<>>
    /\ rankIn = <<>>
    /\ rankOut = <<>>
    /\ waitLoop = [pc |-> "none"]
    /\ callPlan = <<>>
    /\ comprehensive = [pc |-> "none"]

----------------------------------------------------------------------------
(* The remote call service *)

NewCall(kind, shopName) ==
    [kind |-> kind, shopName |-> shopName, status |-> "in-progress",
     quotation |-> Absent, appointmentBooked |-> FALSE]

\* a call reaches a terminal status; its analysis is then available
RemoteCallEnds(c, status, quotation, booked) ==
    /\ c \in DOMAIN remote
    /\ remote[c].status = "in-progress"
    /\ status \in TerminalStatuses
    /\ IF remote[c].kind = "quote"
       THEN booked = FALSE /\ (status = "failed" => quotation = Absent)
       ELSE quotation = Absent
    /\ remote' = [remote EXCEPT ![c].status = status,
                                ![c].quotation = quotation,
                                ![c].appointmentBooked = booked]
    /\ response' = NoResponse
    /\ UNCHANGED <<procVars, writeFailures, callVars, bookingVars>>

\* VapiClient.getCall: the normalized view of a call
getCall(callId) ==
    LET data == remote[callId[2]]
    IN  [callId |-> callId, shopName |-> data.shopName,
         status |-> data.status, quotation |-> data.quotation]

----------------------------------------------------------------------------
(* Call sessions: POST /api/call-shops *)

RequestShops(n) == [i \in 1..n |-> i]

shopsToCall(shops, limit) == Slice(shops, Min(limit, 2))

NewSession(sessionId, callIds, shops) ==
    [sessionId |-> sessionId, callIds |-> callIds, shops |-> shops,
     status |-> "calling", results |-> Absent, analysis |-> Absent]

MockCallId(i) == <<"mock-call", i>>

\* the synthetic result of the i-th shop (i counts from 1 here, from 0 in
\* the code)
MockResult(shop, i) ==
    [callId |-> MockCallId(i), shopName |-> shop, status |-> "ended",
     quotation |-> Some(500 + (i - 1) * 200)]

StartResponse(sessionId, shops) ==
    [kind |-> "call-shops", code |-> 200, sessionId |-> sessionId,
     status |-> "calling", shopsBeingCalled |-> shops]

\* mock mode: the session is stored and a 10 s timer is armed
StartCallsMock(t, n, limit, ok) ==
    /\ ~vapiClient
    /\ t \in now..MaxClock
    /\ now' = t
    /\ LET toCall == shopsToCall(RequestShops(n), limit)
           sessionId == <<"mock", t>>
           r == NewRef(sessionHeap, callTask)
           mockSession == NewSession(sessionId,
                              <<MockCallId(1), MockCallId(2)>>, toCall)
           st1 == [CallStore EXCEPT !.heap[r] = mockSession]
           st2 == persistSession(st1, sessionId, r, ok)
           st3 == [st2 EXCEPT !.tasks[r] =
                      [pc |-> "timer", sessionId |-> sessionId, shops |-> toCall]]
       IN  /\ CommitCalls(st3)
           /\ response' = StartResponse(sessionId, toCall)
    /\ starts' = starts + 1
    /\ UNCHANGED <<vapiClient, appVars, restarts, remote, bookingVars>>

\* MockCallsComplete whose timer gives the session up
MockCallsComplete_GivesUp(r, ok) ==
    /\ callTask[r].pc = "timer"
    /\ LET sessionId == callTask[r].sessionId
           st1 == [CallStore EXCEPT !.tasks[r] = NoTask]
       IN  IF sessionId \in DOMAIN activeSessions
           THEN LET o == activeSessions[sessionId]
                    st2 == [st1 EXCEPT !.heap[o].status = "failed"]
                IN  CommitCalls(persistSession(st2, sessionId, o, ok))
           ELSE CommitCalls(st1)
    /\ response' = NoResponse
    /\ UNCHANGED <<procVars, remote, bookingVars>>

\* the 10 s timer of a mock session fires
MockCallsComplete(r, ok) ==
    /\ callTask[r].pc = "timer"
    /\ LET sessionId == callTask[r].sessionId
           toCall == callTask[r].shops
           st1 == [CallStore EXCEPT !.tasks[r] = NoTask]
       IN  IF sessionId \in DOMAIN activeSessions
           THEN LET o == activeSessions[sessionId]
                    results == [i \in 1..Len(toCall) |-> MockResult(toCall[i], i)]
                    st2 == [st1 EXCEPT
                               !.heap[o].status = "completed",
                               !.heap[o].results = Some(results),
                               !.heap[o].analysis = Some(analyzeAndRankQuotes(results))]
                IN  CommitCalls(persistSession(st2, sessionId, o, ok))
           ELSE CommitCalls(st1)
    /\ response' = NoResponse
    /\ UNCHANGED <<procVars, remote, bookingVars>>

\* VapiClient.callMultipleShops: one createCall per shop, failures dropped.
\* created[i] tells whether the i-th createCall succeeds.
CallsAttempted(toCall, limit) == Slice(toCall, limit)

RECURSIVE callMultipleShops(_, _, _)
\* the responses of the successful creations
callMultipleShops(attempted, created, next) ==
    IF attempted = <<>> THEN <<>>
    ELSE IF Head(created)
         THEN <<[id |-> CallId(next), shopName |-> Head(attempted)]>>
              \o callMultipleShops(Tail(attempted), Tail(created), next + 1)
         ELSE callMultipleShops(Tail(attempted), Tail(created), next)

NewPollLoop(sessionId) ==
    [pc |-> "sleep", sessionId |-> sessionId, elapsed |-> 0,
     i |-> 0, results |-> <<>>, allCompleted |-> TRUE]

\* live mode: calls are created, the session stored, the poll loop started
StartCallsLive(t, n, limit, created, ok) ==
    /\ vapiClient
    /\ t \in now..MaxClock
    /\ now' = t
    /\ LET toCall == shopsToCall(RequestShops(n), limit)
           attempted == CallsAttempted(toCall, Min(limit, 2))
       IN  /\ created \in [1..Len(attempted) -> BOOLEAN]
           /\ LET callResponses == callMultipleShops(attempted, created, NextCall)
                  sessionId == <<"session", t>>
                  r == NewRef(sessionHeap, callTask)
                  session == NewSession(sessionId,
                      [i \in 1..Len(callResponses) |-> callResponses[i].id],
                      toCall)
                  st1 == [CallStore EXCEPT !.heap[r] = session]
                  st2 == persistSession(st1, sessionId, r, ok)
                  st3 == [st2 EXCEPT !.tasks[r] = NewPollLoop(sessionId)]
              IN  /\ Len(remote) + Len(callResponses) <= MaxCalls
                  /\ remote' = remote \o
                         [i \in 1..Len(callResponses) |->
                             NewCall("quote", callResponses[i].shopName)]
                  /\ CommitCalls(st3)
                  /\ response' = StartResponse(sessionId,
                         [i \in 1..Len(callResponses) |-> callResponses[i].shopName])
    /\ starts' = starts + 1
    /\ UNCHANGED <<vapiClient, appVars, restarts, bookingVars>>

----------------------------------------------------------------------------
(* pollCallsForCompletion: the background poll loop of a live session.     *)
(* callTask[r] is the loop that holds the session object r:                *)
(*   pc = "sleep"  waiting for the pollInterval timer                      *)
(*   pc = "get"    waiting for getCall(session.callIds[i])                 *)
(* elapsed is Date.now() - startTime in units of pollInterval, as the loop *)
(* head reads it.                                                          *)

\* CallsLoopHead whose time-out branch ranks what the session holds
CallsLoopHead_TimeoutSummarises(st, r, ok) ==
    LET task == st.tasks[r]
    IN  IF task.elapsed < MaxWaitPolls
        THEN [st EXCEPT !.tasks[r] = [NewPollLoop(task.sessionId)
                                         EXCEPT !.elapsed = task.elapsed]]
        ELSE persistSession(
                 [st EXCEPT !.heap[r].status = "failed",
                            !.heap[r].analysis = Some(analyzeAndRankQuotes(<<>>)),
                            !.tasks[r] = NoTask],
                 task.sessionId, r, ok)

\* CallsLoopHead whose time-out branch leaves the status alone
CallsLoopHead_SilentTimeout(st, r, ok) ==
    LET task == st.tasks[r]
    IN  IF task.elapsed < MaxWaitPolls
        THEN [st EXCEPT !.tasks[r] = [NewPollLoop(task.sessionId)
                                         EXCEPT !.elapsed = task.elapsed]]
        ELSE [st EXCEPT !.tasks[r] = NoTask]

\* the loop head after an iteration that did not return: the next sleep,
\* or the time-out branch (status = failed, persisted)
CallsLoopHead(st, r, ok) ==
    LET task == st.tasks[r]
    IN  IF task.elapsed < MaxWaitPolls
        THEN [st EXCEPT !.tasks[r] = [NewPollLoop(task.sessionId)
                                         EXCEPT !.elapsed = task.elapsed]]
        ELSE persistSession(
                 [st EXCEPT !.heap[r].status = "failed", !.tasks[r] = NoTask],
                 task.sessionId, r, ok)

\* StoreCallResults whose loop goes on after the session completed
StoreCallResults_KeepsPolling(st, r, ok1, ok2) ==
    LET task == st.tasks[r]
        st1 == persistSession([st EXCEPT !.heap[r].results = Some(task.results)],
                              task.sessionId, r, ok1)
    IN  IF task.allCompleted
        THEN CallsLoopHead(
                 [st1 EXCEPT !.heap[r].status = "completed",
                             !.heap[r].analysis =
                                 Some(analyzeAndRankQuotes(task.results))],
                 r, ok2)
        ELSE CallsLoopHead(st1, r, ok2)

\* StoreCallResults that stores the results in every session of the heap
StoreCallResults_EverySession(st, r, ok1, ok2) ==
    LET task == st.tasks[r]
        st1 == persistSession(
                   [st EXCEPT !.heap =
                       [q \in DOMAIN st.heap |->
                           IF st.heap[q] = NoObject THEN NoObject
                           ELSE [st.heap[q] EXCEPT !.results = Some(task.results)]]],
                   task.sessionId, r, ok1)
    IN  IF task.allCompleted
        THEN persistSession(
                 [st1 EXCEPT !.heap[r].status = "completed",
                             !.heap[r].analysis =
                                 Some(analyzeAndRankQuotes(task.results)),
                             !.tasks[r] = NoTask],
                 task.sessionId, r, ok2)
        ELSE CallsLoopHead(st1, r, ok2)

\* StoreCallResults that ranks the results of every iteration
StoreCallResults_RanksPartial(st, r, ok1, ok2) ==
    LET task == st.tasks[r]
        st1 == persistSession(
                   [st EXCEPT !.heap[r].results = Some(task.results),
                              !.heap[r].analysis =
                                  Some(analyzeAndRankQuotes(task.results))],
                   task.sessionId, r, ok1)
    IN  IF task.allCompleted
        THEN persistSession(
                 [st1 EXCEPT !.heap[r].status = "completed",
                             !.tasks[r] = NoTask],
                 task.sessionId, r, ok2)
        ELSE CallsLoopHead(st1, r, ok2)

\* StoreCallResults that keeps the results of an iteration only when the
\* session completes
StoreCallResults_CompletedOnly(st, r, ok1, ok2) ==
    LET task == st.tasks[r]
    IN  IF task.allCompleted
        THEN persistSession(
                 [st EXCEPT !.heap[r].status = "completed",
                            !.heap[r].results = Some(task.results),
                            !.heap[r].analysis =
                                Some(analyzeAndRankQuotes(task.results)),
                            !.tasks[r] = NoTask],
                 task.sessionId, r, ok2)
        ELSE CallsLoopHead(st, r, ok2)

\* StoreCallResults with the allCompleted test dropped
StoreCallResults_Ungated(st, r, ok1, ok2) ==
    LET task == st.tasks[r]
        st1 == persistSession([st EXCEPT !.heap[r].results = Some(task.results)],
                              task.sessionId, r, ok1)
    IN  persistSession(
            [st1 EXCEPT !.heap[r].status = "completed",
                        !.heap[r].analysis =
                            Some(analyzeAndRankQuotes(task.results)),
                        !.tasks[r] = NoTask],
            task.sessionId, r, ok2)

\* the end of the for loop: results stored and persisted, then either the
\* session completes or the loop goes on
StoreCallResults(st, r, ok1, ok2) ==
    LET task == st.tasks[r]
        st1 == persistSession([st EXCEPT !.heap[r].results = Some(task.results)],
                              task.sessionId, r, ok1)
    IN  IF task.allCompleted
        THEN persistSession(
                 [st1 EXCEPT !.heap[r].status = "completed",
                             !.heap[r].analysis =
                                 Some(analyzeAndRankQuotes(task.results)),
                             !.tasks[r] = NoTask],
                 task.sessionId, r, ok2)
        ELSE CallsLoopHead(st1, r, ok2)

\* PollCallsWake that begins with the last call id
PollCallsWake_LastFirst(r, d, ok1, ok2) ==
    /\ callTask[r].pc = "sleep"
    /\ d \in 1..(MaxWaitPolls - callTask[r].elapsed)
    /\ \E st1 \in {[CallStore EXCEPT !.tasks[r].elapsed = @ + d]} :
          IF sessionHeap[r].callIds = <<>>
          THEN CommitCalls(StoreCallResults(st1, r, ok1, ok2))
          ELSE CommitCalls([st1 EXCEPT !.tasks[r].pc = "get",
                                       !.tasks[r].i = Len(sessionHeap[r].callIds)])
    /\ response' = NoResponse
    /\ UNCHANGED <<procVars, remote, bookingVars>>

\* the pollInterval timer fires after d units; the first getCall is issued
PollCallsWake(r, d, ok1, ok2) ==
    /\ callTask[r].pc = "sleep"
    /\ d \in 1..(MaxWaitPolls - callTask[r].elapsed)
    /\ \E st1 \in {[CallStore EXCEPT !.tasks[r].elapsed = @ + d]} :
          IF sessionHeap[r].callIds = <<>>
          THEN CommitCalls(StoreCallResults(st1, r, ok1, ok2))
          ELSE CommitCalls([st1 EXCEPT !.tasks[r].pc = "get",
                                       !.tasks[r].i = 1])
    /\ response' = NoResponse
    /\ UNCHANGED <<procVars, remote, bookingVars>>

\* getCall(session.callIds[i]) returns
PollCallsGetCall(r, ok1, ok2) ==
    /\ callTask[r].pc = "get"
    /\ \E result \in {getCall(sessionHeap[r].callIds[callTask[r].i])} :
       \E st1 \in {[CallStore EXCEPT
                      !.tasks[r].results = Append(@, result),
                      !.tasks[r].allCompleted =
                          @ /\ result.status \in TerminalStatuses]} :
          IF callTask[r].i < Len(sessionHeap[r].callIds)
          THEN CommitCalls([st1 EXCEPT !.tasks[r].i = @ + 1])
          ELSE CommitCalls(StoreCallResults(st1, r, ok1, ok2))
    /\ response' = NoResponse
    /\ UNCHANGED <<procVars, remote, bookingVars>>

\* PollCallsGetCallFails in which the error of getCall fails the session
PollCallsGetCallFails_MarksFailed(r, ok) ==
    /\ callTask[r].pc = "get"
    /\ \E st1 \in {CallStore} :
          CommitCalls(persistSession(
              [st1 EXCEPT !.heap[r].status = "failed", !.tasks[r] = NoTask],
              callTask[r].sessionId, r, ok))
    /\ response' = NoResponse
    /\ UNCHANGED <<procVars, remote, bookingVars>>

\* PollCallsGetCallFails in which the error of getCall ends the loop
PollCallsGetCallFails_Escapes(r, ok) ==
    /\ callTask[r].pc = "get"
    /\ ok
    /\ \E st1 \in {CallStore} : CommitCalls([st1 EXCEPT !.tasks[r] = NoTask])
    /\ response' = NoResponse
    /\ UNCHANGED <<procVars, remote, bookingVars>>

\* getCall(session.callIds[i]) throws: the iteration is abandoned
PollCallsGetCallFails(r, ok) ==
    /\ callTask[r].pc = "get"
    /\ \E st1 \in {CallStore} : CommitCalls(CallsLoopHead(st1, r, ok))
    /\ response' = NoResponse
    /\ UNCHANGED <<procVars, remote, bookingVars>>

----------------------------------------------------------------------------
(* GET /api/call-status/:sessionId *)

CallStatusResponse(sessionId) ==
    IF sessionId \notin DOMAIN activeSessions
    THEN [kind |-> "call-status", sessionId |-> sessionId, code |-> 404]
    ELSE LET session == sessionHeap[activeSessions[sessionId]]
             withResults == session.status = "completed"
                            \/ IsPresent(session.results)
         IN  [kind |-> "call-status", sessionId |-> sessionId, code |-> 200,
              status |-> session.status,
              shopsBeingCalled |-> session.shops,
              results |-> IF withResults THEN session.results ELSE Absent,
              analysis |-> IF withResults THEN session.analysis ELSE Absent]

CallStatus(sessionId) ==
    /\ response' = CallStatusResponse(sessionId)
    /\ UNCHANGED <<procVars, writeFailures, remote, callVars, bookingVars>>

----------------------------------------------------------------------------
(* Bookings: POST /api/book-appointment *)

NewBooking(bookingId, callId) ==
    [bookingId |-> bookingId, callId |-> callId, status |-> "calling",
     result |-> Absent]

BookingStartResponse(bookingId) ==
    [kind |-> "book-appointment", code |-> 200, bookingId |-> bookingId,
     status |-> "calling"]

\* mock mode: the booking is stored and an 8 s timer is armed
BookAppointmentMock(t, ok) ==
    /\ ~vapiClient
    /\ t \in now..MaxClock
    /\ now' = t
    /\ LET bookingId == <<"booking", t>>
           r == NewRef(bookingHeap, bookingTask)
           mockBooking == NewBooking(bookingId, <<"mock-call", t>>)
           st1 == [BookingStore EXCEPT !.heap[r] = mockBooking]
           st2 == persistBooking(st1, bookingId, r, ok)
           st3 == [st2 EXCEPT !.tasks[r] =
                      [pc |-> "timer", bookingId |-> bookingId]]
       IN  /\ CommitBookings(st3)
           /\ response' = BookingStartResponse(bookingId)
    /\ starts' = starts + 1
    /\ UNCHANGED <<vapiClient, appVars, restarts, remote, callVars>>

\* the 8 s timer of a mock booking fires
MockBookingCompletes(r, ok) ==
    /\ bookingTask[r].pc = "timer"
    /\ LET bookingId == bookingTask[r].bookingId
           st1 == [BookingStore EXCEPT !.tasks[r] = NoTask]
       IN  IF bookingId \in DOMAIN activeBookings
           THEN LET o == activeBookings[bookingId]
                    st2 == [st1 EXCEPT
                               !.heap[o].status = "completed",
                               !.heap[o].result =
                                   Some([callId |-> bookingHeap[o].callId,
                                         status |-> "ended",
                                         appointmentBooked |-> TRUE])]
                IN  CommitBookings(persistBooking(st2, bookingId, o, ok))
           ELSE CommitBookings(st1)
    /\ response' = NoResponse
    /\ UNCHANGED <<procVars, remote, callVars>>

NewBookingLoop(bookingId) ==
    [pc |-> "sleep", bookingId |-> bookingId, elapsed |-> 0]

\* live mode: the booking call is created, the booking stored, the poll
\* loop started; a createBookingCall that throws ends the request with 500
BookAppointmentLive(t, created, ok) ==
    /\ vapiClient
    /\ t \in now..MaxClock
    /\ now' = t
    /\ LET bookingId == <<"booking", t>>
       IN  IF created
           THEN LET r == NewRef(bookingHeap, bookingTask)
                    booking == NewBooking(bookingId, CallId(NextCall))
                    st1 == [BookingStore EXCEPT !.heap[r] = booking]
                    st2 == persistBooking(st1, bookingId, r, ok)
                    st3 == [st2 EXCEPT !.tasks[r] = NewBookingLoop(bookingId)]
                IN  /\ Len(remote) < MaxCalls
                    /\ remote' = Append(remote, NewCall("booking", 1))
                    /\ CommitBookings(st3)
                    /\ response' = BookingStartResponse(bookingId)
           ELSE /\ ok
                /\ response' = [kind |-> "book-appointment", code |-> 500]
                /\ UNCHANGED <<remote, writeFailures, bookingVars>>
    /\ starts' = starts + 1
    /\ UNCHANGED <<vapiClient, appVars, restarts, callVars>>

\* VapiClient.getBookingResult: the normalized view of a booking call
getBookingResult(callId) ==
    LET data == remote[callId[2]]
    IN  [callId |-> callId, status |-> data.status,
         appointmentBooked |-> data.appointmentBooked]

\* the loop head of pollBookingForCompletion after an iteration that did
\* not return
BookingLoopHead(st, r, ok) ==
    LET task == st.tasks[r]
    IN  IF task.elapsed < MaxWaitPolls
        THEN [st EXCEPT !.tasks[r].pc = "sleep"]
        ELSE persistBooking(
                 [st EXCEPT !.heap[r].status = "failed", !.tasks[r] = NoTask],
                 task.bookingId, r, ok)

\* the pollInterval timer fires after d units; getBookingResult is issued
PollBookingWake(r, d) ==
    /\ bookingTask[r].pc = "sleep"
    /\ d \in 1..(MaxWaitPolls - bookingTask[r].elapsed)
    /\ bookingTask' = [bookingTask EXCEPT ![r].pc = "get", ![r].elapsed = @ + d]
    /\ response' = NoResponse
    /\ UNCHANGED <<procVars, writeFailures, remote, callVars,
                   bookingHeap, activeBookings, bookingSessionsFile>>

\* bookingStatusOf without the appointmentBooked test
bookingStatusOf_Ungated(result) == "completed"

bookingStatusOf(result) ==
    IF result.appointmentBooked THEN "completed" ELSE "failed"

\* getBookingResult returns
PollBookingGetResult(r, ok1, ok2) ==
    /\ bookingTask[r].pc = "get"
    /\ \E result \in {getBookingResult(bookingHeap[r].callId)} :
       \E st1 \in {persistBooking(
                      [BookingStore EXCEPT !.heap[r].result = Some(result)],
                      bookingTask[r].bookingId, r, ok1)} :
          IF result.status \in TerminalStatuses
          THEN CommitBookings(persistBooking(
                   [st1 EXCEPT !.heap[r].status = bookingStatusOf(result),
                               !.tasks[r] = NoTask],
                   bookingTask[r].bookingId, r, ok2))
          ELSE CommitBookings(BookingLoopHead(st1, r, ok2))
    /\ response' = NoResponse
    /\ UNCHANGED <<procVars, remote, callVars>>

\* getBookingResult throws: the iteration is abandoned
PollBookingGetResultFails(r, ok) ==
    /\ bookingTask[r].pc = "get"
    /\ \E st1 \in {BookingStore} : CommitBookings(BookingLoopHead(st1, r, ok))
    /\ response' = NoResponse
    /\ UNCHANGED <<procVars, remote, callVars>>

----------------------------------------------------------------------------
(* GET /api/booking-status/:bookingId *)

BookingStatusResponse(bookingId) ==
    IF bookingId \in DOMAIN activeBookings
    THEN LET booking == bookingHeap[activeBookings[bookingId]]
         IN  [kind |-> "booking-status", bookingId |-> bookingId, code |-> 200,
              status |-> booking.status, result |-> booking.result]
    ELSE IF bookingId \in DOMAIN bookingSessionsFile
    THEN LET savedBooking == bookingSessionsFile[bookingId]
         IN  [kind |-> "booking-status", bookingId |-> bookingId, code |-> 200,
              status |-> savedBooking.status, result |-> savedBooking.result]
    ELSE [kind |-> "booking-status", bookingId |-> bookingId, code |-> 404]

BookingStatus(bookingId) ==
    /\ response' = BookingStatusResponse(bookingId)
    /\ UNCHANGED <<procVars, writeFailures, remote, callVars, bookingVars>>

----------------------------------------------------------------------------
(* Process restart: memory is lost, the maps are loaded from the files *)

\* the objects JSON.parse creates, one per id of the file
LoadRefs(file) ==
    CHOOSE f \in [DOMAIN file -> 1..Cardinality(DOMAIN file)] :
        \A a, b \in DOMAIN file : a # b => f[a] # f[b]

LoadHeap(file) ==
    [r \in Refs |-> IF \E id \in DOMAIN file : LoadRefs(file)[id] = r
                    THEN file[CHOOSE id \in DOMAIN file : LoadRefs(file)[id] = r]
                    ELSE NoObject]

\* initSessionsFromFile that re-attaches a poll loop to each calling session
initSessionsFromFile_Resume ==
    /\ sessionHeap' = LoadHeap(callSessionsFile)
    /\ activeSessions' = LoadRefs(callSessionsFile)
    /\ callTask' = [r \in Refs |->
           IF LoadHeap(callSessionsFile)[r] # NoObject
              /\ LoadHeap(callSessionsFile)[r].status = "calling"
           THEN NewPollLoop(LoadHeap(callSessionsFile)[r].sessionId)
           ELSE NoTask]
    /\ UNCHANGED callSessionsFile

initSessionsFromFile ==
    /\ sessionHeap' = LoadHeap(callSessionsFile)
    /\ activeSessions' = LoadRefs(callSessionsFile)
    /\ callTask' = [r \in Refs |-> NoTask]
    /\ UNCHANGED callSessionsFile

initBookingsFromFile ==
    /\ bookingHeap' = LoadHeap(bookingSessionsFile)
    /\ activeBookings' = LoadRefs(bookingSessionsFile)
    /\ bookingTask' = [r \in Refs |-> NoTask]
    /\ UNCHANGED bookingSessionsFile

Restart ==
    /\ restarts < MaxRestarts
    /\ restarts' = restarts + 1
    /\ initSessionsFromFile
    /\ initBookingsFromFile
    /\ response' = NoResponse
    /\ UNCHANGED <<vapiClient, appVars, now, starts, writeFailures, remote>>

----------------------------------------------------------------------------

\* the ids a status request names: those of the process's mode
SessionIds == {<<IF vapiClient THEN "session" ELSE "mock", t>> : t \in 0..MaxClock}

BookingIds == {<<"booking", t>> : t \in 0..MaxClock}

Next ==
    \/ \E c \in DOMAIN remote, st \in TerminalStatuses,
          q \in {Absent} \cup {Some(p) : p \in QuotedPrices}, b \in BOOLEAN :
          RemoteCallEnds(c, st, q, b)
    \/ \E t \in 0..MaxClock, n \in 1..MaxShops, limit \in Limits, ok \in BOOLEAN :
          starts < MaxStarts /\ StartCallsMock(t, n, limit, ok)
    \/ \E r \in Refs, ok \in BOOLEAN : MockCallsComplete(r, ok)
    \/ \E t \in 0..MaxClock, n \in 1..MaxShops, limit \in Limits, ok \in BOOLEAN :
          \E created \in [1..Len(CallsAttempted(shopsToCall(RequestShops(n), limit), Min(limit, 2))) -> BOOLEAN] :
              starts < MaxStarts /\ StartCallsLive(t, n, limit, created, ok)
    \/ \E r \in Refs, d \in 1..MaxWaitPolls, ok1, ok2 \in BOOLEAN :
          PollCallsWake(r, d, ok1, ok2)
    \/ \E r \in Refs, ok1, ok2 \in BOOLEAN : PollCallsGetCall(r, ok1, ok2)
    \/ \E r \in Refs, ok \in BOOLEAN : PollCallsGetCallFails(r, ok)
    \/ \E id \in SessionIds : CallStatus(id)
    \/ \E t \in 0..MaxClock, ok \in BOOLEAN :
          starts < MaxStarts /\ BookAppointmentMock(t, ok)
    \/ \E r \in Refs, ok \in BOOLEAN : MockBookingCompletes(r, ok)
    \/ \E t \in 0..MaxClock, created, ok \in BOOLEAN :
          starts < MaxStarts /\ BookAppointmentLive(t, created, ok)
    \/ \E r \in Refs, d \in 1..MaxWaitPolls : PollBookingWake(r, d)
    \/ \E r \in Refs, ok1, ok2 \in BOOLEAN : PollBookingGetResult(r, ok1, ok2)
    \/ \E r \in Refs, ok \in BOOLEAN : PollBookingGetResultFails(r, ok)
    \/ \E id \in BookingIds : BookingStatus(id)
    \/ Restart

Spec == Init /\ [][Next]_vars

\* Concurrent sessions: MaxSessions start requests for one shop each with
\* the default limit, every call creation succeeding, and no restart
NextMulti ==
    \/ \E c \in DOMAIN remote, st \in TerminalStatuses,
          q \in {Absent} \cup {Some(p) : p \in QuotedPrices}, b \in BOOLEAN :
          RemoteCallEnds(c, st, q, b)
    \/ \E t \in 0..MaxClock, ok \in BOOLEAN :
          starts < MaxSessions /\ StartCallsMock(t, 1, 2, ok)
    \/ \E r \in Refs, ok \in BOOLEAN : MockCallsComplete(r, ok)
    \/ \E t \in 0..MaxClock, ok \in BOOLEAN :
          starts < MaxSessions
          /\ StartCallsLive(t, 1, 2, [i \in 1..1 |-> TRUE], ok)
    \/ \E r \in Refs, d \in 1..MaxWaitPolls, ok1, ok2 \in BOOLEAN :
          PollCallsWake(r, d, ok1, ok2)
    \/ \E r \in Refs, ok1, ok2 \in BOOLEAN : PollCallsGetCall(r, ok1, ok2)
    \/ \E r \in Refs, ok \in BOOLEAN : PollCallsGetCallFails(r, ok)
    \/ \E id \in SessionIds : CallStatus(id)
    \/ \E t \in 0..MaxClock, ok \in BOOLEAN :
          starts < MaxSessions /\ BookAppointmentMock(t, ok)
    \/ \E r \in Refs, ok \in BOOLEAN : MockBookingCompletes(r, ok)
    \/ \E t \in 0..MaxClock, ok \in BOOLEAN :
          starts < MaxSessions /\ BookAppointmentLive(t, TRUE, ok)
    \/ \E r \in Refs, d \in 1..MaxWaitPolls : PollBookingWake(r, d)
    \/ \E r \in Refs, ok1, ok2 \in BOOLEAN : PollBookingGetResult(r, ok1, ok2)
    \/ \E r \in Refs, ok \in BOOLEAN : PollBookingGetResultFails(r, ok)
    \/ \E id \in BookingIds : BookingStatus(id)

\* the session code never reads YUTORI_API_KEY or dynamoDbClient: one
\* value of each is enough
InitMulti == Init /\ YUTORI_API_KEY = TRUE /\ dynamoDbClient = TRUE

MultiSpec == InitMulti /\ [][NextMulti]_vars

\* one step of the poll loop that holds r
\* the steps of a process without voice-call credentials that keeps
\* running: start requests, the timers of the simulation, status requests
NextMock ==
    \/ \E t \in 0..MaxClock, n \in 1..MaxShops, limit \in Limits, ok \in BOOLEAN :
          starts < MaxSessions /\ StartCallsMock(t, n, limit, ok)
    \/ \E r \in Refs, ok \in BOOLEAN : MockCallsComplete(r, ok)
    \/ \E id \in SessionIds : CallStatus(id)
    \/ \E t \in 0..MaxClock, ok \in BOOLEAN :
          starts < MaxSessions /\ BookAppointmentMock(t, ok)
    \/ \E r \in Refs, ok \in BOOLEAN : MockBookingCompletes(r, ok)
    \/ \E id \in BookingIds : BookingStatus(id)

\* a timer that was armed fires (setTimeout, 10 s and 8 s)
TimerFairness ==
    \A r \in Refs :
        /\ WF_vars(\E ok \in BOOLEAN : MockCallsComplete(r, ok))
        /\ WF_vars(\E ok \in BOOLEAN : MockBookingCompletes(r, ok))

InitMock ==
    Init /\ vapiClient = FALSE /\ YUTORI_API_KEY = TRUE /\ dynamoDbClient = TRUE

MockSpec == InitMock /\ [][NextMock]_vars /\ TimerFairness

PollCallsStep(r) ==
    \/ \E d \in 1..MaxWaitPolls, ok1, ok2 \in BOOLEAN : PollCallsWake(r, d, ok1, ok2)
    \/ \E ok1, ok2 \in BOOLEAN : PollCallsGetCall(r, ok1, ok2)
    \/ \E ok \in BOOLEAN : PollCallsGetCallFails(r, ok)

PollBookingStep(r) ==
    \/ \E d \in 1..MaxWaitPolls : PollBookingWake(r, d)
    \/ \E ok1, ok2 \in BOOLEAN : PollBookingGetResult(r, ok1, ok2)
    \/ \E ok \in BOOLEAN : PollBookingGetResultFails(r, ok)

\* the steps of the server and of the call service, without the read-only
\* status requests
NextLive ==
    \/ \E c \in DOMAIN remote, st \in TerminalStatuses,
          q \in {Absent} \cup {Some(p) : p \in QuotedPrices}, b \in BOOLEAN :
          RemoteCallEnds(c, st, q, b)
    \/ \E t \in 0..MaxClock, n \in 1..MaxShops, limit \in Limits, ok \in BOOLEAN :
          \E created \in [1..Len(CallsAttempted(shopsToCall(RequestShops(n), limit), Min(limit, 2))) -> BOOLEAN] :
              starts < MaxStarts /\ StartCallsLive(t, n, limit, created, ok)
    \/ \E t \in 0..MaxClock, created, ok \in BOOLEAN :
          starts < MaxStarts /\ BookAppointmentLive(t, created, ok)
    \/ \E r \in Refs : PollCallsStep(r)
    \/ \E r \in Refs : PollBookingStep(r)
    \/ Restart

\* Timers fire, and a status request to the call service returns a result
\* or an error: every running poll loop keeps taking steps.
PollFairness ==
    \A r \in Refs : WF_vars(PollCallsStep(r)) /\ WF_vars(PollBookingStep(r))

\* the process started with voice-call credentials (the call and booking
\* code never reads YUTORI_API_KEY: one value of it is enough)
InitLive == Init /\ vapiClient = TRUE /\ YUTORI_API_KEY = TRUE

LiveSpec == InitLive /\ [][NextLive]_vars /\ PollFairness

----------------------------------------------------------------------------
(* The shop cache: a local file and a DynamoDB table.  A location is a     *)
(* sequence of characters.                                                 *)

UpperCase == <<"A", "B", "C", "D", "E", "F", "G", "H", "I", "J", "K", "L", "M",
               "N", "O", "P", "Q", "R", "S", "T", "U", "V", "W", "X", "Y", "Z">>
LowerCase == <<"a", "b", "c", "d", "e", "f", "g", "h", "i", "j", "k", "l", "m",
               "n", "o", "p", "q", "r", "s", "t", "u", "v", "w", "x", "y", "z">>
Digits == <<"0", "1", "2", "3", "4", "5", "6", "7", "8", "9">>

\* the lower-case letter of every upper-case letter
LowerCaseOf ==
    [c \in Range(UpperCase) |->
        LowerCase[CHOOSE i \in DOMAIN UpperCase : UpperCase[i] = c]]

\* String.prototype.toLowerCase on one character (UTF-16 code unit) of a
\* string: the characters it becomes.  "U+0130" (capital I with dot above)
\* becomes "i" followed by "U+0307" (combining dot above); every other
\* character of the alphabet becomes one character.
toLowerCase(c) ==
    IF c \in DOMAIN LowerCaseOf THEN <<LowerCaseOf[c]>>
    ELSE IF c = "U+0130" THEN <<"i", "U+0307">>
    ELSE <<c>>

RECURSIVE LowerCased(_)
\* location.toLowerCase()
LowerCased(location) ==
    IF location = <<>> THEN <<>>
    ELSE toLowerCase(Head(location)) \o LowerCased(Tail(location))

\* the characters /[^a-z0-9]/ does not match
Alnum == Range(LowerCase) \cup Range(Digits)

\* keys with '_' left out of the replacement
ReplaceNonAlnum_KeepAll(c) == c

\* replace(/[^a-z0-9]/g, '_') on one character
ReplaceNonAlnum(c) == IF c \in Alnum THEN c ELSE "_"

RECURSIVE ReplaceAll(_)
\* replace(/[^a-z0-9]/g, '_') on a string
ReplaceAll(str) ==
    IF str = <<>> THEN <<>>
    ELSE <<ReplaceNonAlnum(Head(str))>> \o ReplaceAll(Tail(str))

getCacheKey(location) == ReplaceAll(LowerCased(location))

\* the locations, shop lists and damage descriptions of the requests
Locations == {<<"S", "F">>, <<"s", "f">>, <<"L", " ", "A">>}
ShopLists == {<<>>, <<1>>, <<2>>}
DamageDescriptions == {Absent}

CacheEntry(location, shops, timestamp, damageDescription) ==
    [location |-> location, shops |-> shops, timestamp |-> timestamp,
     damage_description |-> damageDescription]

\* the item saveToDynamoDB puts; damageDescription || ''
DynamoItem(location, shops, timestamp, damageDescription) ==
    [pk |-> getCacheKey(location), location |-> location, shops |-> shops,
     timestamp |-> timestamp,
     damage_description |-> IF IsPresent(damageDescription)
                            THEN damageDescription ELSE Some(""),
     ttl |-> (timestamp \div 1000) + (7 * 24 * 60 * 60)]

\* loadCache: the entries of the file (no file: no entries)
loadCache == cacheFile

\* saveCache: ok = FALSE is a writeFileSync that throws (caught, logged)
saveCache(cache, ok) == IF ok THEN cache ELSE cacheFile

\* getCachedResults that looks the location itself up
getCachedResults_RawKey(location) ==
    IF location \in DOMAIN loadCache
    THEN Some(loadCache[location])
    ELSE Absent

\* getCachedResults: cache.entries[key] || null
getCachedResults(location) ==
    IF getCacheKey(location) \in DOMAIN loadCache
    THEN Some(loadCache[getCacheKey(location)])
    ELSE Absent

\* The cache functions below say what a call does to the cache state up to
\* its await, and what its resumption does; the actions further down put
\* them into a step of a caller.

\* getCachedResultsAsync that asks DynamoDB whatever the local file holds
getCachedResultsAsync_RemoteAlways(location) ==
    /\ Len(cacheGets) < MaxGets
    /\ cacheGets' = Append(cacheGets,
           [location |-> location, localCache |-> getCachedResults(location),
            pc |-> "send", tiers |-> <<"local">>, result |-> Absent])
    /\ UNCHANGED <<cacheFile, dynamoTable>>

\* getCachedResultsAsync up to its await: the local file is read; on a hit
\* the call returns, on a miss getFromDynamoDB sends its GetCommand (or
\* returns null when no client is configured)
getCachedResultsAsync(location) ==
    /\ Len(cacheGets) < MaxGets
    /\ \E localCache \in {getCachedResults(location)} :
          cacheGets' = Append(cacheGets,
              [location |-> location, localCache |-> localCache,
               pc |-> IF IsPresent(localCache) \/ ~dynamoDbClient
                      THEN "done" ELSE "send",
               tiers |-> <<"local">>,
               result |-> localCache])
    /\ UNCHANGED <<cacheFile, dynamoTable>>

\* the entry getCachedResultsAsync builds from a DynamoDB item
EntryOfItem(item) ==
    CacheEntry(item.location, item.shops, item.timestamp,
               item.damage_description)

\* getFromDynamoDB: result.Item, or null on a miss or an error
getFromDynamoDB(location, ok) ==
    IF ok /\ getCacheKey(location) \in DOMAIN dynamoTable
    THEN Some(dynamoTable[getCacheKey(location)])
    ELSE Absent

\* GetCommandReturns that also writes a DynamoDB hit to the local file
GetCommandReturns_Backfill(g, ok) ==
    /\ g \in DOMAIN cacheGets
    /\ cacheGets[g].pc = "send"
    /\ \E dynamoData \in {getFromDynamoDB(cacheGets[g].location, ok)} :
          /\ cacheGets' = [cacheGets EXCEPT
                 ![g].pc = "done",
                 ![g].tiers = Append(@, "remote"),
                 ![g].result = IF IsPresent(dynamoData)
                               THEN Some(EntryOfItem(Get(dynamoData)))
                               ELSE Absent]
          /\ cacheFile' = IF IsPresent(dynamoData)
                          THEN MapSet(cacheFile,
                                      getCacheKey(cacheGets[g].location),
                                      EntryOfItem(Get(dynamoData)))
                          ELSE cacheFile
    /\ UNCHANGED dynamoTable

\* the GetCommand of call g returns (ok) or throws: getCachedResultsAsync
\* resumes and returns the entry of the item, or null
GetCommandReturns(g, ok) ==
    /\ g \in DOMAIN cacheGets
    /\ cacheGets[g].pc = "send"
    /\ \E dynamoData \in {getFromDynamoDB(cacheGets[g].location, ok)} :
          cacheGets' = [cacheGets EXCEPT
              ![g].pc = "done",
              ![g].tiers = Append(@, "remote"),
              ![g].result = IF IsPresent(dynamoData)
                            THEN Some(EntryOfItem(Get(dynamoData)))
                            ELSE Absent]
    /\ UNCHANGED <<cacheFile, dynamoTable>>

\* the shops of the entry the file holds for the key, none if it holds none
PreviousShops(key) ==
    IF key \in DOMAIN loadCache THEN loadCache[key].shops ELSE <<>>

\* updateCacheAsync that appends the new shops to those of the old entry
updateCacheAsync_Merge(t, location, shops, damageDescription, ok) ==
    /\ Len(cachePuts) < MaxPuts
    /\ t \in now..MaxClock
    /\ now' = t
    /\ cacheFile' = saveCache(
           MapSet(loadCache, getCacheKey(location),
                  CacheEntry(location,
                             PreviousShops(getCacheKey(location)) \o shops,
                             t, damageDescription)),
           ok)
    /\ cachePuts' = Append(cachePuts,
           IF dynamoDbClient
           THEN [pc |-> "send",
                 item |-> DynamoItem(location, shops, t, damageDescription)]
           ELSE [pc |-> "done"])
    /\ UNCHANGED dynamoTable

\* updateCacheAsync that writes a file holding its own entry only, as a
\* write from a copy of the file read before other updates would
updateCacheAsync_OwnEntryOnly(t, location, shops, damageDescription, ok) ==
    /\ Len(cachePuts) < MaxPuts
    /\ t \in now..MaxClock
    /\ now' = t
    /\ cacheFile' = saveCache(
           MapSet(EmptyMap, getCacheKey(location),
                  CacheEntry(location, shops, t, damageDescription)),
           ok)
    /\ cachePuts' = Append(cachePuts,
           IF dynamoDbClient
           THEN [pc |-> "send",
                 item |-> DynamoItem(location, shops, t, damageDescription)]
           ELSE [pc |-> "done"])
    /\ UNCHANGED dynamoTable

\* updateCacheAsync up to its await: the file is read, the entry set, the
\* file written; saveToDynamoDB sends its PutCommand (or returns when no
\* client is configured)
updateCacheAsync(t, location, shops, damageDescription, ok) ==
    /\ Len(cachePuts) < MaxPuts
    /\ t \in now..MaxClock
    /\ now' = t
    /\ cacheFile' = saveCache(
           MapSet(loadCache, getCacheKey(location),
                  CacheEntry(location, shops, t, damageDescription)),
           ok)
    /\ cachePuts' = Append(cachePuts,
           IF dynamoDbClient
           THEN [pc |-> "send",
                 item |-> DynamoItem(location, shops, t, damageDescription)]
           ELSE [pc |-> "done"])
    /\ UNCHANGED dynamoTable

\* a PutCommand that appends its shops to those of the item it replaces
PutCommandReturns_Merge(p, ok) ==
    /\ p \in DOMAIN cachePuts
    /\ cachePuts[p].pc = "send"
    /\ dynamoTable' =
           IF ok
           THEN MapSet(dynamoTable, cachePuts[p].item.pk,
                    [cachePuts[p].item EXCEPT
                        !.shops =
                            (IF cachePuts[p].item.pk \in DOMAIN dynamoTable
                             THEN dynamoTable[cachePuts[p].item.pk].shops
                             ELSE <<>>) \o @])
           ELSE dynamoTable
    /\ cachePuts' = [cachePuts EXCEPT ![p] = [pc |-> "done"]]
    /\ UNCHANGED cacheFile

\* the PutCommand of call p is applied and returns (ok), or throws (caught
\* in saveToDynamoDB): updateCacheAsync resumes and returns
PutCommandReturns(p, ok) ==
    /\ p \in DOMAIN cachePuts
    /\ cachePuts[p].pc = "send"
    /\ dynamoTable' = IF ok
                      THEN MapSet(dynamoTable, cachePuts[p].item.pk,
                                  cachePuts[p].item)
                      ELSE dynamoTable
    /\ cachePuts' = [cachePuts EXCEPT ![p] = [pc |-> "done"]]
    /\ UNCHANGED cacheFile

\* The cache functions called on their own
CacheGet(location) ==
    /\ getCachedResultsAsync(location)
    /\ response' = NoResponse
    /\ UNCHANGED <<vapiClient, dynamoDbClient, cachePuts, searchVars, pureVars,
                   now, starts, restarts, writeFailures, remote,
                   callVars, bookingVars>>

CacheGetResumes(g, ok) ==
    /\ GetCommandReturns(g, ok)
    /\ response' = NoResponse
    /\ UNCHANGED <<vapiClient, dynamoDbClient, cachePuts, searchVars, pureVars,
                   now, starts, restarts, writeFailures, remote,
                   callVars, bookingVars>>

CachePut(t, location, shops, damageDescription, ok) ==
    /\ updateCacheAsync(t, location, shops, damageDescription, ok)
    /\ response' = NoResponse
    /\ UNCHANGED <<vapiClient, dynamoDbClient, cacheGets, searchVars, pureVars,
                   starts, restarts, writeFailures, remote,
                   callVars, bookingVars>>

CachePutResumes(p, ok) ==
    /\ PutCommandReturns(p, ok)
    /\ response' = NoResponse
    /\ UNCHANGED <<vapiClient, dynamoDbClient, cacheGets, searchVars, pureVars,
                   now, starts, restarts, writeFailures, remote,
                   callVars, bookingVars>>

NextCache ==
    \/ \E location \in Locations : CacheGet(location)
    \/ \E g \in 1..MaxGets, ok \in BOOLEAN : CacheGetResumes(g, ok)
    \/ \E t \in 0..MaxClock, location \in Locations, shops \in ShopLists,
          damageDescription \in DamageDescriptions, ok \in BOOLEAN :
          CachePut(t, location, shops, damageDescription, ok)
    \/ \E p \in 1..MaxPuts, ok \in BOOLEAN : CachePutResumes(p, ok)

\* the cache code never reads vapiClient or YUTORI_API_KEY: one value of
\* each is enough
InitCache == Init /\ vapiClient = TRUE /\ YUTORI_API_KEY = TRUE

CacheSpec == InitCache /\ [][NextCache]_vars

\* ---- getCacheKey on its own ----

\* the characters location strings are made of: a lower-case and an
\* upper-case letter, a digit, a blank, the underscore, and a letter whose
\* lower case is two characters
Chars == {"a", "Z", "7", " ", "_", "U+0130"}

RECURSIVE StringsOfLength(_)
StringsOfLength(n) ==
    IF n = 0 THEN {<<>>}
    ELSE {Append(s, c) : s \in StringsOfLength(n - 1), c \in Chars}

Strings == UNION {StringsOfLength(n) : n \in 0..MaxLen}

\* getCacheKey(location) is called
DeriveKey(location) ==
    /\ keyIn' = location
    /\ keyOut' = getCacheKey(location)
    /\ response' = NoResponse
    /\ UNCHANGED <<vapiClient, cacheVars, searchVars, rankVars, waitVars, planVars, mergeVars, now, starts,
                   restarts, writeFailures, remote, callVars, bookingVars>>

\* getCacheKey is called on the key the last call returned
DeriveKeyOfKey ==
    /\ keyIn # keyOut
    /\ keyIn' = keyOut
    /\ keyOut' = getCacheKey(keyOut)
    /\ response' = NoResponse
    /\ UNCHANGED <<vapiClient, cacheVars, searchVars, rankVars, waitVars, planVars, mergeVars, now, starts,
                   restarts, writeFailures, remote, callVars, bookingVars>>

NextKey ==
    \/ \E location \in Strings : DeriveKey(location)
    \/ DeriveKeyOfKey

KeySpec == InitCache /\ [][NextKey]_vars

\* ---- analyzeAndRankQuotes on its own ----

\* the quotations of the results: none, one without a price (price 0), two
\* prices
RankQuotations == {Absent, Some(0), Some(450), Some(600)}

\* the results arrays: the i-th result is that of shop i
RankInputs ==
    UNION {{[i \in 1..n |->
                [callId |-> CallId(i), shopName |-> i, status |-> "ended",
                 quotation |-> q[i]]] : q \in [1..n -> RankQuotations]}
           : n \in 0..MaxResults}

\* one call: the array before it, the value returned, the array after it
RankingRun(results) ==
    [input |-> results, output |-> analyzeAndRankQuotes(results),
     after |-> ResultsAfterRanking(results)]

\* analyzeAndRankQuotes(results) is called
RankQuotes(results) ==
    /\ rankOut' = <<RankingRun(results)>>
    /\ rankIn' = rankOut'[1].after
    /\ response' = NoResponse
    /\ UNCHANGED <<vapiClient, cacheVars, searchVars, keyVars, waitVars, planVars, mergeVars, now, starts,
                   restarts, writeFailures, remote, callVars, bookingVars>>

\* analyzeAndRankQuotes is called again on the array of the last call
RankQuotesAgain ==
    /\ Len(rankOut) = 1
    /\ rankOut' = Append(rankOut, RankingRun(rankIn))
    /\ rankIn' = rankOut'[2].after
    /\ response' = NoResponse
    /\ UNCHANGED <<vapiClient, cacheVars, searchVars, keyVars, waitVars, planVars, mergeVars, now, starts,
                   restarts, writeFailures, remote, callVars, bookingVars>>

NextRank ==
    \/ \E results \in RankInputs : RankQuotes(results)
    \/ RankQuotesAgain

RankSpec == InitCache /\ [][NextRank]_vars

----------------------------------------------------------------------------
(* The poll-until-terminal loops: YutoriClient.waitForResearchCompletion,  *)
(* YutoriClient.waitForBrowsingCompletion, VapiClient.waitForCallCompletion *)
(* (status check first, bounded by the clock) and pollYutoriResearch       *)
(* (sleep first, bounded by the number of attempts).                       *)
(* waitLoop.pc: "get" a status request is in flight, "sleep" the timer     *)
(* runs, "done" the promise of the loop is settled (outcome).             *)
(* elapsed is Date.now() - startTime when the loop last ran, observed the  *)
(* statuses the status requests returned with the time of their return.    *)

WaitKinds == {"research", "browsing", "call"}

\* the statuses of a task at the remote service
NonTerminalOf(kind) == IF kind = "call" THEN "in-progress" ELSE "running"
TerminalOf(kind) ==
    IF kind = "call" THEN {"ended", "failed"} ELSE {"succeeded", "failed"}

\* a terminal test that knows success only
IsTerminal_SuccessOnly(kind, status) ==
    status = (IF kind = "call" THEN "ended" ELSE "succeeded")

\* status === 'succeeded' || status === 'failed' (calls: 'ended', 'failed')
IsTerminal(kind, status) ==
    IF kind = "call" THEN status = "ended" \/ status = "failed"
    ELSE status = "succeeded" \/ status = "failed"

NewWait(kind, pc, gets) ==
    [kind |-> kind, pc |-> pc, elapsed |-> 0, i |-> 0, gets |-> gets,
     task |-> NonTerminalOf(kind), observed |-> <<>>, outcome |-> "none"]

WaitFrame ==
    /\ response' = NoResponse
    /\ UNCHANGED <<vapiClient, cacheVars, searchVars, keyVars, rankVars,
                   planVars, mergeVars, now, starts, restarts, writeFailures,
                   remote,
                   callVars, bookingVars>>

\* the task reaches a terminal status at the remote service
TaskEnds(status) ==
    /\ waitLoop.pc \in {"get", "sleep"}
    /\ waitLoop.task = NonTerminalOf(waitLoop.kind)
    /\ status \in TerminalOf(waitLoop.kind)
    /\ waitLoop' = [waitLoop EXCEPT !.task = status]
    /\ WaitFrame

\* waitFor...Completion is called: 0 < maxWaitMs, the first status request
\* is issued
WaitStarts(kind) ==
    /\ waitLoop.pc = "none"
    /\ kind \in WaitKinds
    /\ waitLoop' = NewWait(kind, "get", 1)
    /\ WaitFrame

\* the status request returns after d units
WaitGetReturns(d) ==
    /\ waitLoop.pc = "get"
    /\ waitLoop.kind \in WaitKinds
    /\ LET at == waitLoop.elapsed + d
           seen == Append(waitLoop.observed,
                          [status |-> waitLoop.task, at |-> at])
       IN  waitLoop' =
               IF IsTerminal(waitLoop.kind, waitLoop.task)
               THEN [waitLoop EXCEPT !.pc = "done", !.elapsed = at,
                                     !.observed = seen, !.outcome = "returned"]
               ELSE [waitLoop EXCEPT !.pc = "sleep", !.elapsed = at,
                                     !.observed = seen]
    /\ WaitFrame

\* the status request rejects after d units: the loop rejects with its error
WaitGetThrows(d) ==
    /\ waitLoop.pc = "get"
    /\ waitLoop.kind \in WaitKinds
    /\ waitLoop' = [waitLoop EXCEPT !.pc = "done", !.elapsed = @ + d,
                                    !.outcome = "error"]
    /\ WaitFrame

\* the pollIntervalMs timer fires, d units late; the loop head reads the
\* clock and issues the next status request or throws the timeout error
WaitSleepEnds(d) ==
    /\ waitLoop.pc = "sleep"
    /\ waitLoop.kind \in WaitKinds
    /\ LET at == waitLoop.elapsed + 1 + d
       IN  waitLoop' =
               IF at < MaxWait
               THEN [waitLoop EXCEPT !.pc = "get", !.elapsed = at,
                                     !.gets = @ + 1]
               ELSE [waitLoop EXCEPT !.pc = "done", !.elapsed = at,
                                     !.outcome = "timeout"]
    /\ WaitFrame

\* pollYutoriResearch is called: 0 < maxAttempts, the first sleep starts
PollResearchStarts ==
    /\ waitLoop.pc = "none"
    /\ waitLoop' = NewWait("yutori", "sleep", 0)
    /\ WaitFrame

\* its 5000 ms timer fires, d units late; the status request is issued
PollResearchSleepEnds(d) ==
    /\ waitLoop.pc = "sleep"
    /\ waitLoop.kind = "yutori"
    /\ waitLoop' = [waitLoop EXCEPT !.pc = "get", !.elapsed = @ + 1 + d,
                                    !.gets = @ + 1]
    /\ WaitFrame

\* its status request returns after d units
PollResearchGetReturns(d) ==
    /\ waitLoop.pc = "get"
    /\ waitLoop.kind = "yutori"
    /\ LET at == waitLoop.elapsed + d
           seen == Append(waitLoop.observed,
                          [status |-> waitLoop.task, at |-> at])
           w == [waitLoop EXCEPT !.elapsed = at, !.observed = seen]
       IN  waitLoop' =
               IF waitLoop.task = "succeeded"
               THEN [w EXCEPT !.pc = "done", !.outcome = "returned"]
               ELSE IF waitLoop.task = "failed"
               THEN [w EXCEPT !.pc = "done", !.outcome = "failed"]
               ELSE IF waitLoop.i + 1 < MaxWaitAttempts
               THEN [w EXCEPT !.pc = "sleep", !.i = @ + 1]
               ELSE [w EXCEPT !.pc = "done", !.i = @ + 1,
                              !.outcome = "timeout"]
    /\ WaitFrame

\* its status request rejects: the loop rejects with the error of axios
PollResearchGetThrows(d) ==
    /\ waitLoop.pc = "get"
    /\ waitLoop.kind = "yutori"
    /\ waitLoop' = [waitLoop EXCEPT !.pc = "done", !.elapsed = @ + d,
                                    !.outcome = "error"]
    /\ WaitFrame

NextWait ==
    \/ \E kind \in WaitKinds : WaitStarts(kind)
    \/ \E status \in {"succeeded", "ended", "failed"} : TaskEnds(status)
    \/ \E d \in 0..MaxLatency : WaitGetReturns(d)
    \/ \E d \in 0..MaxLatency : WaitGetThrows(d)
    \/ \E d \in 0..MaxLatency : WaitSleepEnds(d)
    \/ PollResearchStarts
    \/ \E d \in 0..MaxLatency : PollResearchSleepEnds(d)
    \/ \E d \in 0..MaxLatency : PollResearchGetReturns(d)
    \/ \E d \in 0..MaxLatency : PollResearchGetThrows(d)

WaitSpec == InitCache /\ [][NextWait]_vars

----------------------------------------------------------------------------
(* The shops a call-shops request selects (shopsToCall) and the calls      *)
(* VapiClient.callMultipleShops attempts and creates for them, for shop    *)
(* lists longer than those of the session model.                           *)

\* the limit field of the request body: absent, or a number
LimitFields == {Absent} \cup {Some(l) : l \in -2..3}

\* const { shops, damageDescription, limit = 2 } = req.body
LimitOf(field) == IF field = Absent THEN 2 ELSE Get(field)

\* the shops callMultipleShops calls createCall for
PlanAttempted(n, field) ==
    CallsAttempted(shopsToCall(RequestShops(n), LimitOf(field)),
                   Min(LimitOf(field), 2))

\* the handler up to the creation of the calls; created[i] tells whether
\* the i-th createCall succeeds
CallPlan(n, field, created) ==
    [shops |-> RequestShops(n), limit |-> field,
     shopsToCall |-> shopsToCall(RequestShops(n), LimitOf(field)),
     attempted |-> PlanAttempted(n, field),
     callResponses |-> callMultipleShops(PlanAttempted(n, field), created, 1)]

\* a request with n shops is handled with a Vapi client
PlanCalls(n, field, created) ==
    /\ callPlan' = <<CallPlan(n, field, created)>>
    /\ response' = NoResponse
    /\ UNCHANGED <<vapiClient, cacheVars, searchVars, keyVars, rankVars,
                   waitVars, mergeVars, now, starts, restarts, writeFailures,
                   remote,
                   callVars, bookingVars>>

NextPlan ==
    \E n \in 1..MaxListLen, field \in LimitFields :
        \E created \in [1..Len(PlanAttempted(n, field)) -> BOOLEAN] :
            PlanCalls(n, field, created)

PlanSpec == InitCache /\ [][NextPlan]_vars

----------------------------------------------------------------------------
(* VehicleRepairAgent.findRepairShopsComprehensive: the research search,   *)
(* then the browsing search, then the merge of their shops by name.        *)

\* shop names, as strings of characters, and the shops a search returns
ShopNames == {<<"J", "O">>, <<"j", "o">>, <<"K">>}
FoundShops == [shop_name : ShopNames, address : 1..2]
FoundLists == UNION {[1..n -> FoundShops] : n \in 0..MaxFound}

\* shop.shop_name.toLowerCase()
ShopKey(shop) == LowerCased(shop.shop_name)

\* Map.prototype.has on a Map held as its entries in insertion order
MapHas(shopMap, key) == \E k \in DOMAIN shopMap : shopMap[k].key = key

\* Map.prototype.set: the value of a key the Map has is replaced where the
\* key stands, a new key is added last
MapPut(shopMap, key, shop) ==
    IF MapHas(shopMap, key)
    THEN [k \in DOMAIN shopMap |->
             IF shopMap[k].key = key THEN [key |-> key, value |-> shop]
             ELSE shopMap[k]]
    ELSE Append(shopMap, [key |-> key, value |-> shop])

RECURSIVE AddResearch(_, _)
\* for (const shop of researchResults.shops) shopMap.set(key, shop)
AddResearch(shopMap, shops) ==
    IF shops = <<>> THEN shopMap
    ELSE AddResearch(MapPut(shopMap, ShopKey(Head(shops)), Head(shops)),
                     Tail(shops))

\* a browsing loop that sets every shop, as the research loop does
AddBrowsingShop_Overwrites(shopMap, shop) ==
    MapPut(shopMap, ShopKey(shop), shop)

\* a browsing loop that compares the names as they are written
AddBrowsingShop_CaseSensitive(shopMap, shop) ==
    IF \E k \in DOMAIN shopMap : shopMap[k].value.shop_name = shop.shop_name
    THEN shopMap
    ELSE Append(shopMap, [key |-> shop.shop_name, value |-> shop])

\* one iteration of the browsing loop: if (!shopMap.has(key)) set
AddBrowsingShop(shopMap, shop) ==
    IF ~MapHas(shopMap, ShopKey(shop))
    THEN MapPut(shopMap, ShopKey(shop), shop)
    ELSE shopMap

RECURSIVE AddBrowsing(_, _)
\* for (const shop of browsingResults.shops) ...
AddBrowsing(shopMap, shops) ==
    IF shops = <<>> THEN shopMap
    ELSE AddBrowsing(AddBrowsingShop(shopMap, Head(shops)), Tail(shops))

\* Array.from(shopMap.values())
MapValues(shopMap) == [k \in DOMAIN shopMap |-> shopMap[k].value]

\* mergedShops
mergedShops(researchShops, browsingShops) ==
    MapValues(AddBrowsing(AddResearch(<<>>, researchShops), browsingShops))

\* a result whose total_found adds up those of the two searches
ComprehensiveResult_SumsFound(researchShops, browsingShops) ==
    [shops |-> mergedShops(researchShops, browsingShops),
     total_found |-> Len(researchShops) + Len(browsingShops)]

\* the object findRepairShopsComprehensive returns (search_location and
\* search_radius_miles are those of the agent and the argument)
ComprehensiveResult(researchShops, browsingShops) ==
    [shops |-> mergedShops(researchShops, browsingShops),
     total_found |-> Len(mergedShops(researchShops, browsingShops))]

MergeFrame ==
    /\ response' = NoResponse
    /\ UNCHANGED <<vapiClient, cacheVars, searchVars, keyVars, rankVars,
                   waitVars, planVars, now, starts, restarts, writeFailures,
                   remote, callVars, bookingVars>>

\* findRepairShopsComprehensive is called and awaits the research search
ComprehensiveStarts ==
    /\ comprehensive.pc = "none"
    /\ comprehensive' = [pc |-> "research"]
    /\ MergeFrame

\* findRepairShopsWithResearch returns its shops (none when the task has
\* no structured result): the browsing search is awaited
ResearchReturns(shops) ==
    /\ comprehensive.pc = "research"
    /\ comprehensive' = [pc |-> "browsing", researchResults |-> shops]
    /\ MergeFrame

\* findRepairShopsWithResearch throws (task failed, wait timed out, request
\* rejected): the call is rejected with that error
ResearchThrows ==
    /\ comprehensive.pc = "research"
    /\ comprehensive' = [pc |-> "thrown"]
    /\ MergeFrame

\* findRepairShopsWithBrowsing returns its shops: the two lists are merged
\* and returned
BrowsingReturns(shops) ==
    /\ comprehensive.pc = "browsing"
    /\ comprehensive' =
           [pc |-> "done",
            researchResults |-> comprehensive.researchResults,
            browsingResults |-> shops,
            result |-> ComprehensiveResult(comprehensive.researchResults,
                                           shops)]
    /\ MergeFrame

\* findRepairShopsWithBrowsing throws: the call is rejected
BrowsingThrows ==
    /\ comprehensive.pc = "browsing"
    /\ comprehensive' = [pc |-> "thrown"]
    /\ MergeFrame

NextMerge ==
    \/ ComprehensiveStarts
    \/ \E shops \in FoundLists : ResearchReturns(shops)
    \/ ResearchThrows
    \/ \E shops \in FoundLists : BrowsingReturns(shops)
    \/ BrowsingThrows

MergeSpec == InitCache /\ [][NextMerge]_vars

\* ---- POST /api/search-shops ----

API_TIMEOUT_MS == 15000
PollIntervalMs == 5000
maxAttempts == 60

\* generateMockShops: five fixed shops, numbered apart from the shops a
\* research task returns
generateMockShops == <<-1, -2, -3, -4, -5>>

\* the bodies res.json / res.status(400).json are called with
BadRequest ==
    [status |-> 400, kind |-> "bad request", shops |-> Absent,
     cached |-> Absent, cache_timestamp |-> Absent, error |-> TRUE]

NoKeyResponse ==
    [status |-> 200, kind |-> "no key", shops |-> Some(generateMockShops),
     cached |-> Some(FALSE), cache_timestamp |-> Absent, error |-> FALSE]

\* a success response flagged as cached
SuccessResponse_Cached(shops) ==
    [status |-> 200, kind |-> "success", shops |-> Some(shops),
     cached |-> Some(TRUE), cache_timestamp |-> Absent, error |-> FALSE]

SuccessResponse(shops) ==
    [status |-> 200, kind |-> "success", shops |-> Some(shops),
     cached |-> Some(FALSE), cache_timestamp |-> Absent, error |-> FALSE]

\* a timeout response that serves every entry, also one without shops
TimeoutResponse_AnyEntry(cachedResults) ==
    IF IsPresent(cachedResults)
    THEN [status |-> 200, kind |-> "timeout",
          shops |-> Some(Get(cachedResults).shops),
          cached |-> Some(TRUE),
          cache_timestamp |-> Some(Get(cachedResults).timestamp),
          error |-> FALSE]
    ELSE [status |-> 200, kind |-> "timeout",
          shops |-> Some(generateMockShops),
          cached |-> Some(TRUE), cache_timestamp |-> Absent,
          error |-> FALSE]

TimeoutResponse(cachedResults) ==
    IF IsPresent(cachedResults) /\ Len(Get(cachedResults).shops) > 0
    THEN [status |-> 200, kind |-> "timeout",
          shops |-> Some(Get(cachedResults).shops),
          cached |-> Some(TRUE),
          cache_timestamp |-> Some(Get(cachedResults).timestamp),
          error |-> FALSE]
    ELSE [status |-> 200, kind |-> "timeout",
          shops |-> Some(generateMockShops),
          cached |-> Some(TRUE), cache_timestamp |-> Absent,
          error |-> FALSE]

ErrorResponse ==
    [status |-> 200, kind |-> "error", shops |-> Some(generateMockShops),
     cached |-> Absent, cache_timestamp |-> Absent, error |-> TRUE]

\* a request whose handler awaits getCachedResultsAsync (call get)
NewSearch(location, get) ==
    [location |-> location, pc |-> "lookup", get |-> get,
     cachedResults |-> Absent, fetch |-> "none", attempts |-> 0, put |-> 0,
     shops |-> <<>>, saved |-> FALSE, finished |-> 0, timer |-> "none",
     responses |-> <<>>, background |-> "none"]

\* the handler after await getCachedResultsAsync: without YUTORI_API_KEY
\* the mock shops are sent; with it the timer is set, fetchFromYutori is
\* started (its axios.post sent) and the handler awaits the race
AfterLookup(search, cachedResults) ==
    IF ~YUTORI_API_KEY
    THEN [search EXCEPT !.pc = "done", !.cachedResults = cachedResults,
                        !.responses = Append(@, NoKeyResponse)]
    ELSE [search EXCEPT !.pc = "race", !.cachedResults = cachedResults,
                        !.fetch = "create", !.timer = "set"]

\* the fetches that have returned their shops
Fulfilled == {i \in DOMAIN searches : searches[i].fetch = "fulfilled"}

\* a fulfilled fetchPromise that sends its shops to the request whether
\* or not the request has been answered
FetchFulfilled_Deliver(search, shops) ==
    [search EXCEPT !.pc = "done", !.fetch = "fulfilled",
                   !.finished = Cardinality(Fulfilled) + 1,
                   !.responses = Append(@, SuccessResponse(shops))]

\* fetchPromise is fulfilled with shops (finished: its place among the
\* fulfilled fetches): the handler awaiting the race sends them; after
\* the timeout only the background handler logs
FetchFulfilled(search, shops) ==
    IF search.pc = "race"
    THEN [search EXCEPT !.pc = "done", !.fetch = "fulfilled",
                        !.finished = Cardinality(Fulfilled) + 1,
                        !.responses = Append(@, SuccessResponse(shops))]
    ELSE [search EXCEPT !.fetch = "fulfilled",
                        !.finished = Cardinality(Fulfilled) + 1,
                        !.background = "completed"]

\* a rejected fetchPromise that is answered from the cache entry
FetchRejected_ServesCache(search) ==
    IF search.pc = "race"
    THEN [search EXCEPT !.pc = "done", !.fetch = "rejected",
                        !.responses =
                            Append(@, IF IsPresent(search.cachedResults)
                                      THEN TimeoutResponse(search.cachedResults)
                                      ELSE ErrorResponse)]
    ELSE [search EXCEPT !.fetch = "rejected", !.background = "error"]

\* a rejected fetchPromise whose error reaches the client
FetchRejected_Propagates(search) ==
    IF search.pc = "race"
    THEN [search EXCEPT !.pc = "done", !.fetch = "rejected",
                        !.responses = Append(@, [BadRequest EXCEPT
                                                    !.status = 500,
                                                    !.kind = "error"])]
    ELSE [search EXCEPT !.fetch = "rejected", !.background = "error"]

\* fetchPromise is rejected: the handler awaiting the race lands in its
\* catch block; after the timeout only the background handler logs
FetchRejected(search) ==
    IF search.pc = "race"
    THEN [search EXCEPT !.pc = "done", !.fetch = "rejected",
                        !.responses = Append(@, ErrorResponse)]
    ELSE [search EXCEPT !.fetch = "rejected", !.background = "error"]

\* a request without location
SearchShopsNoLocation ==
    /\ Len(searches) < MaxSearches
    /\ searches' = Append(searches,
           [NewSearch(<<>>, 0) EXCEPT !.pc = "done",
                                      !.responses = <<BadRequest>>])
    /\ response' = NoResponse
    /\ UNCHANGED <<vapiClient, cacheVars, YUTORI_API_KEY, pureVars,
                   now, starts, restarts, writeFailures, remote,
                   callVars, bookingVars>>

\* a request with location: the handler runs up to its first await that
\* does not return at once
SearchShops(location) ==
    /\ Len(searches) < MaxSearches
    /\ getCachedResultsAsync(location)
    /\ \E get \in {Len(cacheGets) + 1} :
          searches' = Append(searches,
              IF cacheGets'[get].pc = "done"
              THEN AfterLookup(NewSearch(location, get),
                               cacheGets'[get].result)
              ELSE NewSearch(location, get))
    /\ response' = NoResponse
    /\ UNCHANGED <<vapiClient, dynamoDbClient, cachePuts, YUTORI_API_KEY,
                   pureVars, now, starts, restarts, writeFailures, remote,
                   callVars, bookingVars>>

\* the GetCommand of the lookup of request i returns or throws
SearchLookupReturns(i, ok) ==
    /\ i \in DOMAIN searches
    /\ searches[i].pc = "lookup"
    /\ GetCommandReturns(searches[i].get, ok)
    /\ searches' = [searches EXCEPT
           ![i] = AfterLookup(@, cacheGets'[searches[i].get].result)]
    /\ response' = NoResponse
    /\ UNCHANGED <<vapiClient, dynamoDbClient, cachePuts, YUTORI_API_KEY,
                   pureVars, now, starts, restarts, writeFailures, remote,
                   callVars, bookingVars>>

\* the axios.post that creates the research task of request i returns or
\* throws
CreateTaskReturns(i, ok) ==
    /\ i \in DOMAIN searches
    /\ searches[i].fetch = "create"
    /\ searches' = [searches EXCEPT
           ![i] = IF ok THEN [@ EXCEPT !.fetch = "poll"]
                  ELSE FetchRejected(@)]
    /\ response' = NoResponse
    /\ UNCHANGED <<vapiClient, cacheVars, YUTORI_API_KEY, pureVars,
                   now, starts, restarts, writeFailures, remote,
                   callVars, bookingVars>>

\* the sleep of an iteration of pollYutoriResearch has ended no earlier
\* than the timer of the request, which was set before it
TimerDue(search) ==
    (search.attempts + 1) * PollIntervalMs >= API_TIMEOUT_MS

\* an iteration of pollYutoriResearch for request i whose GET throws, or
\* returns a status that ends the loop with an error
PollFails(i) ==
    /\ i \in DOMAIN searches
    /\ searches[i].fetch = "poll"
    /\ TimerDue(searches[i]) => searches[i].timer = "fired"
    /\ searches' = [searches EXCEPT ![i] = FetchRejected(@)]
    /\ response' = NoResponse
    /\ UNCHANGED <<vapiClient, cacheVars, YUTORI_API_KEY, pureVars,
                   now, starts, restarts, writeFailures, remote,
                   callVars, bookingVars>>

\* an iteration of pollYutoriResearch for request i whose GET returns a
\* status other than succeeded and failed
PollRunning(i) ==
    /\ i \in DOMAIN searches
    /\ searches[i].fetch = "poll"
    /\ searches[i].attempts < MaxPolls
    /\ TimerDue(searches[i]) => searches[i].timer = "fired"
    /\ searches' = [searches EXCEPT
           ![i] = IF @.attempts + 1 = maxAttempts
                  THEN FetchRejected([@ EXCEPT !.attempts = @ + 1])
                  ELSE [@ EXCEPT !.attempts = @ + 1]]
    /\ response' = NoResponse
    /\ UNCHANGED <<vapiClient, cacheVars, YUTORI_API_KEY, pureVars,
                   now, starts, restarts, writeFailures, remote,
                   callVars, bookingVars>>

\* an iteration of pollYutoriResearch for request i whose GET returns
\* succeeded with shops: fetchFromYutori parses them (the geocoding
\* requests change coordinates only, which the shops here do not carry)
\* and calls updateCacheAsync, which writes the file (ok) and awaits
\* saveToDynamoDB; without a DynamoDB client it returns at once and
\* fetchPromise is fulfilled
PollSucceeds(i, t, shops, ok) ==
    /\ i \in DOMAIN searches
    /\ searches[i].fetch = "poll"
    /\ TimerDue(searches[i]) => searches[i].timer = "fired"
    /\ \E damageDescription \in DamageDescriptions :
          updateCacheAsync(t, searches[i].location, shops,
                           damageDescription, ok)
    /\ searches' = [searches EXCEPT
           ![i] = IF dynamoDbClient
                  THEN [@ EXCEPT !.fetch = "put", !.shops = shops,
                                 !.saved = ok, !.put = Len(cachePuts) + 1]
                  ELSE FetchFulfilled(
                           [@ EXCEPT !.shops = shops, !.saved = ok,
                                     !.put = Len(cachePuts) + 1],
                           shops)]
    /\ response' = NoResponse
    /\ UNCHANGED <<vapiClient, dynamoDbClient, cacheGets, YUTORI_API_KEY,
                   pureVars, starts, restarts, writeFailures, remote,
                   callVars, bookingVars>>

\* the PutCommand of the fetch of request i returns or throws (caught):
\* updateCacheAsync returns and fetchPromise is fulfilled
SearchPutReturns(i, ok) ==
    /\ i \in DOMAIN searches
    /\ searches[i].fetch = "put"
    /\ PutCommandReturns(searches[i].put, ok)
    /\ searches' = [searches EXCEPT
           ![i] = FetchFulfilled(@, @.shops)]
    /\ response' = NoResponse
    /\ UNCHANGED <<vapiClient, dynamoDbClient, cacheGets, YUTORI_API_KEY,
                   pureVars, now, starts, restarts, writeFailures, remote,
                   callVars, bookingVars>>

\* TimeoutFires that reads the local cache entry when the timer fires
TimeoutFires_ReadsCacheNow(i) ==
    /\ i \in DOMAIN searches
    /\ searches[i].pc = "race"
    /\ searches[i].timer = "set"
    /\ searches' = [searches EXCEPT
           ![i] = [@ EXCEPT !.pc = "done", !.timer = "fired",
                            !.responses =
                                Append(@, TimeoutResponse(
                                              getCachedResults(searches[i].location)))]]
    /\ response' = NoResponse
    /\ UNCHANGED <<vapiClient, cacheVars, YUTORI_API_KEY, pureVars,
                   now, starts, restarts, writeFailures, remote,
                   callVars, bookingVars>>

\* the timer of request i fires while the handler awaits the race: the
\* background handlers are attached to fetchPromise and the entry read at
\* the start of the request, or the mock shops, are sent
TimeoutFires(i) ==
    /\ i \in DOMAIN searches
    /\ searches[i].pc = "race"
    /\ searches[i].timer = "set"
    /\ searches' = [searches EXCEPT
           ![i] = [@ EXCEPT !.pc = "done", !.timer = "fired",
                            !.responses =
                                Append(@, TimeoutResponse(
                                              searches[i].cachedResults))]]
    /\ response' = NoResponse
    /\ UNCHANGED <<vapiClient, cacheVars, YUTORI_API_KEY, pureVars,
                   now, starts, restarts, writeFailures, remote,
                   callVars, bookingVars>>

NextSearch ==
    \/ SearchShopsNoLocation
    \/ \E location \in Locations : SearchShops(location)
    \/ \E i \in 1..MaxSearches, ok \in BOOLEAN : SearchLookupReturns(i, ok)
    \/ \E i \in 1..MaxSearches, ok \in BOOLEAN : CreateTaskReturns(i, ok)
    \/ \E i \in 1..MaxSearches : PollFails(i)
    \/ \E i \in 1..MaxSearches : PollRunning(i)
    \/ \E i \in 1..MaxSearches, t \in 0..MaxClock, shops \in ShopLists,
          ok \in BOOLEAN : PollSucceeds(i, t, shops, ok)
    \/ \E i \in 1..MaxSearches, ok \in BOOLEAN : SearchPutReturns(i, ok)
    \/ \E i \in 1..MaxSearches : TimeoutFires(i)

\* the search code never reads vapiClient
InitSearch == Init /\ vapiClient = TRUE

SearchSpec == InitSearch /\ [][NextSearch]_vars

----------------------------------------------------------------------------
(* Properties *)

\* the sessions and bookings a status request can observe
Sessions == {sessionHeap[activeSessions[id]] : id \in DOMAIN activeSessions}
Bookings == {bookingHeap[activeBookings[id]] : id \in DOMAIN activeBookings}

AllTerminal(results) ==
    \A i \in 1..Len(results) : results[i].status \in TerminalStatuses

\* a poll loop of the store is running for the object r
Polling(tasks, r) == tasks[r].pc \in {"sleep", "get"}

\* C1 as stated: in every observable state a call session is completed if
\* and only if its results are present and every entry has a terminal status
C1_CompletedIffAllTerminal ==
    \A s \in Sessions :
        s.status = "completed"
            <=> (IsPresent(s.results) /\ AllTerminal(Get(s.results)))

\* C1 amended: completed only with results that are all terminal; the
\* converse holds unless the process restarted after a failed file write
C1_CompletedOnlyIfAllTerminal ==
    /\ \A s \in Sessions :
          s.status = "completed"
              => (IsPresent(s.results) /\ AllTerminal(Get(s.results)))
    /\ (restarts = 0 \/ writeFailures = 0) => C1_CompletedIffAllTerminal

\* a session with 2 calls of which exactly 1 has ended, still calling
C1_Witness ==
    \E s \in Sessions :
        /\ s.status = "calling"
        /\ IsPresent(s.results)
        /\ Len(Get(s.results)) = 2
        /\ Get(s.results)[1].status = "ended"
        /\ Get(s.results)[2].status = "in-progress"

\* C2 as stated: results, when present, hold one entry per call id, in the
\* order of callIds, in live mode and in simulation mode
C2_ResultsMatchCallIds ==
    \A s \in Sessions :
        IsPresent(s.results) =>
            /\ Len(Get(s.results)) = Len(s.callIds)
            /\ \A i \in 1..Len(s.callIds) : Get(s.results)[i].callId = s.callIds[i]

\* C2 in live mode only: there the poll loop builds results from callIds
C2_LiveResultsMatchCallIds == vapiClient => C2_ResultsMatchCallIds

\* C3: a booking is completed only with a terminal result whose
\* appointmentBooked is true, and the poll step that observes a terminal
\* result with appointmentBooked false sets the status to failed
C3_CompletedOnlyIfBooked ==
    \A b \in Bookings :
        b.status = "completed" =>
            /\ IsPresent(b.result)
            /\ Get(b.result).status \in TerminalStatuses
            /\ Get(b.result).appointmentBooked

C3_NotBookedBecomesFailed ==
    \A r \in Refs :
        (/\ bookingTask[r].pc = "get"
         /\ restarts' = restarts
         /\ bookingHeap'[r] # NoObject
         /\ IsPresent(bookingHeap'[r].result)
         /\ Get(bookingHeap'[r].result).status \in TerminalStatuses
         /\ ~Get(bookingHeap'[r].result).appointmentBooked)
        => bookingHeap'[r].status = "failed"

\* C3: a booking is completed only if its call is terminal and booked, and
\* a call that ends without an appointment makes the booking failed
C3_BookingGated ==
    []C3_CompletedOnlyIfBooked /\ [][C3_NotBookedBecomesFailed]_vars

\* the booking call ended without an appointment and the booking is failed
C3_Witness ==
    \E b \in Bookings :
        /\ b.status = "failed"
        /\ IsPresent(b.result)
        /\ Get(b.result).status = "ended"
        /\ ~Get(b.result).appointmentBooked

\* C4: a poll loop that ends without its session being completed (booking:
\* without a terminal result) has timed out and leaves status failed,
\* written to the session file unless that write fails; and every running
\* poll loop leads to status completed or failed, or is cut by a restart
C4_CallTimeoutRecordsFailed ==
    \A r \in Refs :
        (/\ Polling(callTask, r) /\ ~Polling(callTask', r)
         /\ restarts' = restarts
         /\ sessionHeap'[r] # NoObject)
        => /\ sessionHeap'[r].status \in {"completed", "failed"}
           /\ sessionHeap'[r].status = "failed" =>
                 /\ callTask[r].elapsed = MaxWaitPolls
                 /\ writeFailures' = writeFailures =>
                       callSessionsFile'[callTask[r].sessionId].status = "failed"

C4_BookingTimeoutRecordsFailed ==
    \A r \in Refs :
        (/\ Polling(bookingTask, r) /\ ~Polling(bookingTask', r)
         /\ restarts' = restarts
         /\ bookingHeap'[r] # NoObject)
        => /\ bookingHeap'[r].status \in {"completed", "failed"}
           /\ (bookingHeap'[r].status = "failed"
               /\ ~(IsPresent(bookingHeap'[r].result)
                    /\ Get(bookingHeap'[r].result).status \in TerminalStatuses)) =>
                 /\ bookingTask[r].elapsed = MaxWaitPolls
                 /\ writeFailures' = writeFailures =>
                       bookingSessionsFile'[bookingTask[r].bookingId].status = "failed"

C4_PollLoopsEnd ==
    \A r \in Refs, k \in 0..MaxRestarts :
        /\ (Polling(callTask, r) /\ restarts = k)
              ~> \/ restarts > k
                 \/ (~Polling(callTask, r) /\ sessionHeap[r] # NoObject
                     /\ sessionHeap[r].status \in {"completed", "failed"})
        /\ (Polling(bookingTask, r) /\ restarts = k)
              ~> \/ restarts > k
                 \/ (~Polling(bookingTask, r) /\ bookingHeap[r] # NoObject
                     /\ bookingHeap[r].status \in {"completed", "failed"})

\* C4: a poll loop that times out records status failed, and every running
\* poll loop eventually leaves its session completed or failed
C4_TimeoutBecomesFailed ==
    /\ [][C4_CallTimeoutRecordsFailed /\ C4_BookingTimeoutRecordsFailed]_vars
    /\ C4_PollLoopsEnd

\* a session timed out with one of its two calls still in progress, and
\* the failed status is in the session file
C4_Witness ==
    \E id \in DOMAIN activeSessions :
        LET s == sessionHeap[activeSessions[id]]
        IN  /\ s.status = "failed"
            /\ IsPresent(s.results)
            /\ ~AllTerminal(Get(s.results))
            /\ id \in DOMAIN callSessionsFile
            /\ callSessionsFile[id].status = "failed"
            /\ restarts = 0

----------------------------------------------------------------------------
(* Partial results, write-through, failed writes, restart *)

\* the results the poll loop r has gathered once the pending getCall returns
Observed(r) ==
    Append(callTask[r].results,
           getCall(sessionHeap[r].callIds[callTask[r].i]))

\* the pending getCall of loop r is the last one of its iteration
LastGetCall(r) ==
    /\ callTask[r].pc = "get"
    /\ callTask[r].i = Len(sessionHeap[r].callIds)

\* some of the observed calls are terminal and others are not
Partial(results) ==
    /\ \E i \in 1..Len(results) : results[i].status \in TerminalStatuses
    /\ \E i \in 1..Len(results) : results[i].status \notin TerminalStatuses

\* C5: the poll step that ends an iteration with partial results stores
\* them in the session and writes them to the session file; when another
\* iteration follows, the status is still calling, in memory and in the
\* file, and a status request made before that iteration returns them
C5_PartialStep ==
    \A r \in Refs, ok1, ok2 \in BOOLEAN :
        (PollCallsGetCall(r, ok1, ok2) /\ LastGetCall(r) /\ Partial(Observed(r)))
        => \A sessionId \in {callTask[r].sessionId} :
               /\ sessionHeap'[r].results = Some(Observed(r))
               /\ writeFailures' = writeFailures =>
                     callSessionsFile'[sessionId].results = Some(Observed(r))
               /\ callTask'[r].pc = "sleep" =>
                     /\ sessionHeap'[r].status = "calling"
                     /\ writeFailures' = writeFailures =>
                           callSessionsFile'[sessionId].status = "calling"
                     /\ (CallStatusResponse(sessionId))' =
                           [kind |-> "call-status", sessionId |-> sessionId,
                            code |-> 200, status |-> "calling",
                            shopsBeingCalled |-> sessionHeap[r].shops,
                            results |-> Some(Observed(r)),
                            analysis |-> Absent]

\* a status request answers with the session as it is stored
C5_StatusRequestReturnsStored ==
    (response.kind = "call-status" /\ response.code = 200) =>
        /\ response.sessionId \in DOMAIN activeSessions
        /\ response.status =
              sessionHeap[activeSessions[response.sessionId]].status
        /\ IsPresent(sessionHeap[activeSessions[response.sessionId]].results) =>
              response.results =
                  sessionHeap[activeSessions[response.sessionId]].results

\* C5: partial results are stored and written with status calling before
\* the next iteration, and a status request returns what is stored
C5_PartialResultsObservable ==
    []C5_StatusRequestReturnsStored /\ [][C5_PartialStep]_vars

\* a status request between two iterations has returned partial results
\* that are also in the session file
C5_Witness ==
    /\ response.kind = "call-status"
    /\ response.code = 200
    /\ response.status = "calling"
    /\ IsPresent(response.results)
    /\ Partial(Get(response.results))
    /\ \E r \in Refs :
          /\ callTask[r].pc = "sleep"
          /\ callTask[r].sessionId = response.sessionId
          /\ callSessionsFile[response.sessionId].results = response.results
          /\ callSessionsFile[response.sessionId].status = "calling"

\* C6: while no file write has failed, each session file holds exactly the
\* sessions of its in-memory map with the same content, in every state
\* between two steps
C6_FilesEqualMaps ==
    writeFailures = 0 =>
        /\ callSessionsFile = Snapshot(activeSessions, sessionHeap)
        /\ bookingSessionsFile = Snapshot(activeBookings, bookingHeap)

\* C6: a restart loads every session and booking of the files with the
\* same content, and a status request for its id finds it
C6_RestartLoadsFiles ==
    restarts' = restarts + 1 =>
        /\ \A id \in DOMAIN callSessionsFile :
              /\ id \in DOMAIN activeSessions'
              /\ sessionHeap'[activeSessions'[id]] = callSessionsFile[id]
              /\ (CallStatusResponse(id))'.code = 200
              /\ (CallStatusResponse(id))'.status = callSessionsFile[id].status
        /\ \A id \in DOMAIN bookingSessionsFile :
              /\ id \in DOMAIN activeBookings'
              /\ bookingHeap'[activeBookings'[id]] = bookingSessionsFile[id]
              /\ (BookingStatusResponse(id))'.code = 200
              /\ (BookingStatusResponse(id))'.result =
                     bookingSessionsFile[id].result

\* C6: the files equal the maps while writes succeed, and a restart loads
\* every persisted session and booking unchanged
C6_WriteThrough ==
    []C6_FilesEqualMaps /\ [][C6_RestartLoadsFiles]_vars

\* after a restart with no failed write, a status request has found a
\* session that was persisted with results before the restart
C6_Witness ==
    /\ restarts = 1
    /\ writeFailures = 0
    /\ response.kind = "call-status"
    /\ response.code = 200
    /\ IsPresent(response.results)
    /\ callSessionsFile[response.sessionId].results = response.results

\* C7: a step in which a file write fails answers and updates memory as
\* it would have without the failure.  A start request still answers 200
\* and its id is in the map; the poll step still stores what it observed,
\* a status request returns it, and the loop goes on to its next sleep
\* unless the session completed or timed out.
C7_StartSurvivesFailedWrite ==
    (starts' = starts + 1 /\ writeFailures' > writeFailures) =>
        /\ response'.code = 200
        /\ response'.status = "calling"
        /\ response'.kind = "call-shops" =>
              \A id \in SessionIds : id = response'.sessionId =>
                  /\ id \in DOMAIN activeSessions'
                  /\ (CallStatusResponse(id))'.code = 200
        /\ response'.kind = "book-appointment" =>
              \A id \in BookingIds : id = response'.bookingId =>
                  /\ id \in DOMAIN activeBookings'
                  /\ (BookingStatusResponse(id))'.code = 200

C7_PollSurvivesFailedWrite ==
    \A r \in Refs, ok1, ok2 \in BOOLEAN :
        (/\ PollCallsGetCall(r, ok1, ok2)
         /\ LastGetCall(r)
         /\ writeFailures' > writeFailures)
        => \A sessionId \in {callTask[r].sessionId},
              timedOut \in {callTask[r].elapsed >= MaxWaitPolls} :
               /\ sessionHeap'[r].results = Some(Observed(r))
               /\ activeSessions'[sessionId] = r
               /\ (CallStatusResponse(sessionId))'.results = Some(Observed(r))
               /\ sessionHeap'[r].status =
                     IF AllTerminal(Observed(r)) THEN "completed"
                     ELSE IF timedOut THEN "failed" ELSE "calling"
               /\ callTask'[r].pc =
                     IF AllTerminal(Observed(r)) \/ timedOut
                     THEN "none" ELSE "sleep"

C7_BookingPollSurvivesFailedWrite ==
    \A r \in Refs, ok1, ok2 \in BOOLEAN :
        (/\ PollBookingGetResult(r, ok1, ok2)
         /\ writeFailures' > writeFailures)
        => \A bookingId \in {bookingTask[r].bookingId},
              result \in {getBookingResult(bookingHeap[r].callId)},
              timedOut \in {bookingTask[r].elapsed >= MaxWaitPolls} :
               /\ bookingHeap'[r].result = Some(result)
               /\ activeBookings'[bookingId] = r
               /\ (BookingStatusResponse(bookingId))'.result = Some(result)
               /\ bookingTask'[r].pc =
                     IF result.status \in TerminalStatuses \/ timedOut
                     THEN "none" ELSE "sleep"

\* C7: a failed file write raises nothing, memory is updated, status
\* requests return the updated record and the poll loop continues
C7_FailedWriteIsSilent ==
    [][/\ C7_StartSurvivesFailedWrite
       /\ C7_PollSurvivesFailedWrite
       /\ C7_BookingPollSurvivesFailedWrite]_vars

\* a write has failed: the file lacks the results that the in-memory
\* session holds, the poll loop is at its next sleep, and a status request
\* has returned the in-memory results
C7_Witness ==
    /\ writeFailures = 1
    /\ restarts = 0
    /\ response.kind = "call-status"
    /\ response.code = 200
    /\ IsPresent(response.results)
    /\ \E r \in Refs :
          /\ callTask[r].pc = "sleep"
          /\ callTask[r].sessionId = response.sessionId
          /\ sessionHeap[r].results = response.results
          /\ callSessionsFile[response.sessionId].results = Absent

\* no timer and no poll loop is attached to the session object r
Unattended(r) ==
    /\ sessionHeap[r] # NoObject
    /\ callTask[r] = NoTask
    /\ \A q \in Refs : callTask[q].pc = "timer" =>
          callTask[q].sessionId # sessionHeap[r].sessionId

UnattendedBooking(r) ==
    /\ bookingHeap[r] # NoObject
    /\ bookingTask[r] = NoTask
    /\ \A q \in Refs : bookingTask[q].pc = "timer" =>
          bookingTask[q].bookingId # bookingHeap[r].bookingId

\* C8: a restart loads a session or booking persisted as calling with
\* status calling and starts no poll loop and no timer
C8_RestartAttachesNothing ==
    restarts' = restarts + 1 =>
        /\ \A id \in DOMAIN callSessionsFile :
              callSessionsFile[id].status = "calling" =>
                  \A r \in Refs : r = activeSessions'[id] =>
                      /\ sessionHeap'[r].status = "calling"
                      /\ Unattended(r)'
        /\ \A id \in DOMAIN bookingSessionsFile :
              bookingSessionsFile[id].status = "calling" =>
                  \A r \in Refs : r = activeBookings'[id] =>
                      /\ bookingHeap'[r].status = "calling"
                      /\ UnattendedBooking(r)'

\* C8: a calling session or booking with nothing attached is still calling
\* after every step, under whatever reference its id is then stored
C8_UnattendedStaysCalling ==
    /\ \A r \in Refs :
          (Unattended(r) /\ sessionHeap[r].status = "calling") =>
              \A q \in Refs :
                  (/\ sessionHeap'[q] # NoObject
                   /\ sessionHeap'[q].sessionId = sessionHeap[r].sessionId)
                  => sessionHeap'[q].status = "calling"
    /\ \A r \in Refs :
          (UnattendedBooking(r) /\ bookingHeap[r].status = "calling") =>
              \A q \in Refs :
                  (/\ bookingHeap'[q] # NoObject
                   /\ bookingHeap'[q].bookingId = bookingHeap[r].bookingId)
                  => bookingHeap'[q].status = "calling"

\* C8: a session or booking loaded as calling has no poll loop or timer
\* and stays calling in every later state
C8_CallingStuckAfterRestart ==
    [][C8_RestartAttachesNothing /\ C8_UnattendedStaysCalling]_vars

\* after a restart a loaded session is still calling although every one
\* of its calls has ended at the call service, and a status request has
\* answered calling
C8_Witness ==
    /\ restarts = 1
    /\ vapiClient
    /\ response.kind = "call-status"
    /\ response.code = 200
    /\ response.status = "calling"
    /\ \E r \in Refs :
          /\ Unattended(r)
          /\ sessionHeap[r].sessionId = response.sessionId
          /\ sessionHeap[r].callIds # <<>>
          /\ \A i \in 1..Len(sessionHeap[r].callIds) :
                remote[sessionHeap[r].callIds[i][2]].status = "ended"

\* the cache calls that have returned
ReturnedGets == {g \in DOMAIN cacheGets : cacheGets[g].pc = "done"}

\* C9: a call of getCachedResultsAsync reads the local file first and
\* DynamoDB only after a local miss; on a local hit it returns the local
\* entry without reading DynamoDB
C9_TiersInOrder ==
    \A g \in DOMAIN cacheGets :
        /\ cacheGets[g].tiers \in {<<"local">>, <<"local", "remote">>}
        /\ (cacheGets[g].pc = "send" \/ cacheGets[g].tiers = <<"local", "remote">>)
              => (cacheGets[g].localCache = Absent /\ dynamoDbClient)
        /\ IsPresent(cacheGets[g].localCache) =>
              /\ cacheGets[g].pc = "done"
              /\ cacheGets[g].tiers = <<"local">>
              /\ cacheGets[g].result = cacheGets[g].localCache

\* C9: the call that starts when the file holds an entry for the key
\* returns that entry in the same step and sends nothing to DynamoDB
C9_LocalHitReturns ==
    \A location \in Locations :
        (/\ getCachedResultsAsync(location)
         /\ getCacheKey(location) \in DOMAIN cacheFile)
        => \A g \in {Len(cacheGets) + 1} :
               /\ cacheGets'[g].pc = "done"
               /\ cacheGets'[g].result =
                      Some(cacheFile[getCacheKey(location)])
               /\ cacheGets'[g].tiers = <<"local">>

\* C9: the local tier is read first, the remote tier only on a local
\* miss; a local hit is returned without reading the remote tier
C9_LocalFirstRemoteOnMiss ==
    []C9_TiersInOrder /\ [][C9_LocalHitReturns]_vars

\* a call has returned the local entry while DynamoDB, which is
\* configured, holds other shops for the same key
C9_Witness ==
    /\ dynamoDbClient
    /\ \E g \in ReturnedGets :
          /\ IsPresent(cacheGets[g].localCache)
          /\ cacheGets[g].result = cacheGets[g].localCache
          /\ cacheGets[g].tiers = <<"local">>
          /\ getCacheKey(cacheGets[g].location) \in DOMAIN dynamoTable
          /\ dynamoTable[getCacheKey(cacheGets[g].location)].shops
                 # Get(cacheGets[g].result).shops

\* C10: the step in which a call returns a DynamoDB hit after a local miss
\* returns the entry of the item and leaves the local file as it is; a key
\* the file lacked before the step it still lacks, so the next call for
\* that key misses locally
C10_RemoteHitStep ==
    \A g \in DOMAIN cacheGets, ok \in BOOLEAN :
        (/\ GetCommandReturns(g, ok)
         /\ IsPresent(getFromDynamoDB(cacheGets[g].location, ok)))
        => \A location \in {cacheGets[g].location} :
               /\ cacheGets'[g].result =
                      Some(EntryOfItem(dynamoTable[getCacheKey(location)]))
               /\ cacheFile' = cacheFile
               /\ getCacheKey(location) \notin DOMAIN cacheFile =>
                      (getCachedResults(location))' = Absent

KeyChars == Alnum \cup {"_"}

RECURSIVE CountOf(_, _)
CountOf(c, str) ==
    IF str = <<>> THEN 0
    ELSE (IF Head(str) = c THEN 1 ELSE 0) + CountOf(c, Tail(str))

\* C13 as stated: the key has the length of the location, holds only
\* lower-case letters, digits and underscores, and is its own key
C13_KeySameLengthAsLocation ==
    /\ Len(keyOut) = Len(keyIn)
    /\ \A i \in DOMAIN keyOut : keyOut[i] \in KeyChars
    /\ getCacheKey(keyOut) = keyOut

\* C13: the key holds only lower-case letters, digits and underscores and
\* is its own key; it has the length of the lower-cased location, which is
\* the length of the location plus one for every character whose lower
\* case is two characters
C13_KeyNormalised ==
    /\ Len(keyOut) = Len(keyIn) + CountOf("U+0130", keyIn)
    /\ Len(keyOut) = Len(LowerCased(keyIn))
    /\ \A i \in DOMAIN keyOut : keyOut[i] \in KeyChars
    /\ getCacheKey(keyOut) = keyOut

\* the key of a location with an upper-case letter, a blank and a letter
\* whose lower case is two characters has been derived
C13_Witness ==
    /\ keyIn = <<"Z", " ", "U+0130">>
    /\ keyOut = <<"z", "_", "i", "_">>
\* C12: the step of updateCacheAsync whose file write succeeds leaves the
\* file with exactly the new entry under the key and every other key as
\* it was; a step whose file write fails leaves the whole file as it was
C12_LocalOverwriteStep ==
    \A t \in 0..MaxClock, location \in Locations, shops \in ShopLists,
       damageDescription \in DamageDescriptions, ok \in BOOLEAN :
        CachePut(t, location, shops, damageDescription, ok)
        => \A key \in {getCacheKey(location)} :
              IF ok
              THEN /\ DOMAIN cacheFile' = DOMAIN cacheFile \cup {key}
                   /\ cacheFile'[key] =
                          CacheEntry(location, shops, t, damageDescription)
                   /\ cacheFile'[key].shops = shops
                   /\ \A other \in DOMAIN cacheFile \ {key} :
                          cacheFile'[other] = cacheFile[other]
              ELSE cacheFile' = cacheFile

\* C12: the PutCommand that is applied replaces the item of its key by the
\* item of the call and leaves every other item as it was
C12_RemoteOverwriteStep ==
    \A p \in DOMAIN cachePuts :
        CachePutResumes(p, TRUE)
        => \A item \in {cachePuts[p].item} :
              /\ DOMAIN dynamoTable' = DOMAIN dynamoTable \cup {item.pk}
              /\ dynamoTable'[item.pk] = item
              /\ \A other \in DOMAIN dynamoTable \ {item.pk} :
                     dynamoTable'[other] = dynamoTable[other]

\* C12: a put replaces the entry of its key by the new entry, whatever
\* the old entry and the new list are, and changes no other entry
C12_PutOverwrites ==
    [][C12_LocalOverwriteStep /\ C12_RemoteOverwriteStep]_vars

\* a second put for a key, with an empty list, has written the file while
\* DynamoDB still holds the shops of the first put for that key
C12_Witness ==
    /\ Len(cachePuts) = 2
    /\ cachePuts[2].pc = "send"
    /\ cachePuts[2].item.shops = <<>>
    /\ \E key \in {cachePuts[2].item.pk} :
          /\ key \in DOMAIN cacheFile
          /\ key \in DOMAIN dynamoTable
          /\ dynamoTable[key].shops = <<1>>
          /\ cacheFile[key].shops = <<>>
          /\ cacheFile[key].timestamp > dynamoTable[key].timestamp

\* the locations that normalize to the key of a location
SameKey ==
    [L1 \in Locations |->
        {L2 \in Locations : getCacheKey(L2) = getCacheKey(L1)}]

\* C14: two locations with the same key read the same entry from the
\* local file and the same item from DynamoDB
C14_SameKeySameEntry ==
    \A L1 \in Locations : \A L2 \in SameKey[L1] :
        /\ getCachedResults(L1) = getCachedResults(L2)
        /\ getFromDynamoDB(L1, TRUE) = getFromDynamoDB(L2, TRUE)

\* C14: a call of getCachedResultsAsync reads from the file what every
\* location of the same key reads, and its GetCommand returns the item
\* every location of the same key gets
C14_GetStep ==
    \A L2 \in Locations :
        /\ \A L1 \in SameKey[L2] :
              (/\ Len(cacheGets') = Len(cacheGets) + 1
               /\ getCachedResultsAsync(L1))
              => cacheGets'[Len(cacheGets) + 1].localCache
                     = getCachedResults(L2)
        /\ \A g \in DOMAIN cacheGets :
              (/\ cacheGets[g].location \in SameKey[L2]
               /\ cacheGets'[g] # cacheGets[g]
               /\ GetCommandReturns(g, TRUE))
              => \A dynamoData \in {getFromDynamoDB(L2, TRUE)} :
                     cacheGets'[g].result =
                         IF IsPresent(dynamoData)
                         THEN Some(EntryOfItem(Get(dynamoData)))
                         ELSE Absent

\* C14: locations with the same key get the same entry
C14_SameKeySameGet == []C14_SameKeySameEntry /\ [][C14_GetStep]_vars

\* after a put with "SF" a get with "sf" returned the entry of that put
C14_Witness ==
    \E g \in ReturnedGets :
        /\ cacheGets[g].location = <<"s", "f">>
        /\ IsPresent(cacheGets[g].result)
        /\ Get(cacheGets[g].result).location = <<"S", "F">>
        /\ Get(cacheGets[g].result).shops # <<>>
        /\ getCachedResults(<<"S", "F">>) = cacheGets[g].result
\* the requests whose fetch has called updateCacheAsync
Putters == {i \in DOMAIN searches : searches[i].put # 0}

\* C11 as stated: the fetch that called updateCacheAsync does not wait
\* for the PutCommand: while the PutCommand of a call is in flight the
\* fetch that made the call has been fulfilled
C11_FetchDoesNotAwaitRemoteWrite ==
    \A i \in Putters :
        cachePuts[searches[i].put].pc = "send"
            => searches[i].fetch = "fulfilled"

\* C11: a PutCommand that throws leaves DynamoDB as it was, and the fetch
\* that awaited it is fulfilled with its shops all the same
C11_RemoteFailureNotPropagated ==
    [][\A i \in DOMAIN searches :
          (searches[i].fetch = "put" /\ searches'[i].fetch # "put")
          => /\ searches'[i].fetch = "fulfilled"
             /\ searches'[i].shops = searches[i].shops]_vars

\* C15 as stated: a request that waits for its cache lookup, an API key
\* being configured, has its timer set and its fetch started
C15_RaceStartedDuringLookup ==
    \A i \in DOMAIN searches :
        (YUTORI_API_KEY /\ searches[i].pc = "lookup")
            => /\ searches[i].timer = "set"
               /\ searches[i].fetch # "none"

\* C15: the timer is set and the fetch started in the step in which the
\* lookup returns, not before
C15_RaceStartsWhenLookupReturns ==
    \A i \in DOMAIN searches :
        searches[i].pc = "lookup"
            => searches[i].timer = "none" /\ searches[i].fetch = "none"
\* the requests answered in the step
Answered(i) ==
    /\ i \in DOMAIN searches
    /\ searches[i].responses = <<>>
    /\ searches'[i].responses # <<>>

\* C16: the step that answers a request with the shops of its fetch is
\* taken before the timer of the request fires; the response carries the
\* shops the fetch parsed, with cached = false; updateCacheAsync was
\* called with those shops before and has returned
C16_SuccessStep ==
    \A i \in DOMAIN searches :
        (Answered(i) /\ searches'[i].responses[1].kind = "success")
        => /\ searches[i].timer = "set" /\ searches'[i].timer = "set"
           /\ searches'[i].responses =
                  <<[status |-> 200, kind |-> "success",
                     shops |-> Some(searches'[i].shops),
                     cached |-> Some(FALSE), cache_timestamp |-> Absent,
                     error |-> FALSE]>>
           /\ searches'[i].put \in DOMAIN cachePuts'
           /\ cachePuts'[searches'[i].put].pc = "done"

\* C16: the step in which a fetch calls updateCacheAsync writes the
\* parsed shops under the key of the location unless the file write
\* fails, and hands the same shops to the PutCommand
C16_PutStep ==
    \A i \in DOMAIN searches :
        (searches[i].fetch = "poll"
         /\ searches'[i].fetch \in {"put", "fulfilled"})
        => \A key \in {getCacheKey(searches[i].location)} :
              /\ searches'[i].put = Len(cachePuts) + 1
              /\ Len(cachePuts') = Len(cachePuts) + 1
              /\ IF searches'[i].saved
                 THEN /\ key \in DOMAIN cacheFile'
                      /\ cacheFile'[key].shops = searches'[i].shops
                 ELSE cacheFile' = cacheFile
              /\ searches'[i].fetch = "put" =>
                     /\ cachePuts'[searches'[i].put].item.pk = key
                     /\ cachePuts'[searches'[i].put].item.shops
                            = searches'[i].shops

\* C16: a fetch that wins the race is answered with its shops and
\* cached = false after its cache put
C16_FetchWins == [][C16_SuccessStep /\ C16_PutStep]_vars

\* a request has been answered with the shops of its fetch, which both
\* the file and DynamoDB hold under the key of its location
C16_Witness ==
    \E i \in DOMAIN searches :
        /\ dynamoDbClient
        /\ searches[i].shops # <<>>
        /\ searches[i].responses = <<SuccessResponse(searches[i].shops)>>
        /\ \E key \in {getCacheKey(searches[i].location)} :
              /\ key \in DOMAIN cacheFile
              /\ cacheFile[key].shops = searches[i].shops
              /\ key \in DOMAIN dynamoTable
              /\ dynamoTable[key].shops = searches[i].shops

\* C17: the entry a request serves on timeout is the one its lookup
\* returned
C17_CachedResultsOfLookup ==
    \A i \in DOMAIN searches :
        (searches[i].pc # "lookup" /\ searches[i].get # 0)
        => /\ cacheGets[searches[i].get].pc = "done"
           /\ searches[i].cachedResults = cacheGets[searches[i].get].result

\* C17: the step in which the timer of a request fires while its fetch is
\* in flight answers the request and leaves the fetch as it is; the
\* response has cached = true, no error, and the shops of the entry the
\* lookup returned if that entry has shops, the mock shops otherwise
C17_TimeoutStep ==
    \A i \in DOMAIN searches :
        (searches[i].timer = "set" /\ searches'[i].timer = "fired")
        => /\ searches[i].fetch \in {"create", "poll", "put"}
           /\ searches'[i].fetch = searches[i].fetch
           /\ Answered(i)
           /\ Len(searches'[i].responses) = 1
           /\ \A r \in {searches'[i].responses[1]},
                 cachedResults \in {searches[i].cachedResults} :
                 /\ r.status = 200
                 /\ r.cached = Some(TRUE)
                 /\ r.error = FALSE
                 /\ Len(Get(r.shops)) > 0
                 /\ r.shops =
                        IF IsPresent(cachedResults)
                           /\ Get(cachedResults).shops # <<>>
                        THEN Some(Get(cachedResults).shops)
                        ELSE Some(generateMockShops)

\* C17: a request whose timer fires first is answered at once with
\* cached = true and a non-empty list: cached shops or the mock shops
C17_TimeoutWins == []C17_CachedResultsOfLookup /\ [][C17_TimeoutStep]_vars

\* two requests have timed out: one that found no entry and was answered
\* with the mock shops, one that found an entry with shops and was
\* answered with them
C17_Witness ==
    \E i \in DOMAIN searches, j \in DOMAIN searches :
        /\ searches[i].timer = "fired"
        /\ searches[i].cachedResults = Absent
        /\ searches[i].responses[1].shops = Some(generateMockShops)
        /\ searches[i].responses[1].cached = Some(TRUE)
        /\ searches[j].timer = "fired"
        /\ IsPresent(searches[j].cachedResults)
        /\ Get(searches[j].cachedResults).shops # <<>>
        /\ searches[j].responses[1].shops
               = Some(Get(searches[j].cachedResults).shops)
        /\ searches[j].responses[1].cached = Some(TRUE)

\* C18: a request has at most one response, and exactly one once its
\* handler has returned
C18_OneResponse ==
    \A i \in DOMAIN searches :
        /\ Len(searches[i].responses) <= 1
        /\ searches[i].pc = "done" <=> Len(searches[i].responses) = 1

\* C18: after the timer of a request has fired its response stays as it
\* is; its fetch is not rejected by the timeout but goes on through its
\* states, and the step in which it calls updateCacheAsync writes its
\* shops to the file (unless the write fails), where the lookup of a
\* later request for the key finds them
C18_BackgroundStep ==
    \A i \in DOMAIN searches :
        searches[i].timer = "fired"
        => /\ searches'[i].responses = searches[i].responses
           /\ searches'[i].timer = "fired"
           /\ searches'[i].fetch # searches[i].fetch =>
                  \/ /\ searches[i].fetch = "create"
                     /\ searches'[i].fetch \in {"poll", "rejected"}
                  \/ /\ searches[i].fetch = "poll"
                     /\ searches'[i].fetch \in {"put", "fulfilled",
                                                "rejected"}
                  \/ /\ searches[i].fetch = "put"
                     /\ searches'[i].fetch = "fulfilled"
           /\ (searches'[i].fetch = "fulfilled"
               /\ searches[i].fetch # "fulfilled")
              => searches'[i].background = "completed"
           /\ (searches[i].fetch = "poll"
               /\ searches'[i].fetch \in {"put", "fulfilled"}
               /\ searches'[i].saved)
              => \A location \in SameKey[searches[i].location] :
                     /\ IsPresent((getCachedResults(location))')
                     /\ Get((getCachedResults(location))').shops
                            = searches'[i].shops

\* C18: the fetch of a request that timed out runs on, updates the cache
\* on success, and never reaches the request, which has one response
C18_BackgroundFetch == []C18_OneResponse /\ [][C18_BackgroundStep]_vars

\* a request timed out and was answered with the mock shops; its fetch
\* went on, polled again and wrote its shops to the cache, where the
\* lookup of a later request for the same key found them
C18_Witness ==
    \E i \in DOMAIN searches, j \in DOMAIN searches :
        /\ i < j
        /\ searches[i].timer = "fired"
        /\ searches[i].attempts > 0
        /\ searches[i].background = "completed"
        /\ searches[i].shops # <<>>
        /\ searches[i].responses = <<TimeoutResponse(Absent)>>
        /\ searches[j].location \in SameKey[searches[i].location]
        /\ IsPresent(searches[j].cachedResults)
        /\ Get(searches[j].cachedResults).shops = searches[i].shops

\* C19: the step in which the fetch of a request is rejected while the
\* handler awaits the race answers the request, whatever its lookup
\* returned, with status 200, the mock shops and an error field
C19_FailureStep ==
    \A i \in DOMAIN searches :
        (searches[i].pc = "race" /\ searches'[i].fetch = "rejected")
        => /\ searches[i].timer = "set"
           /\ searches'[i].pc = "done"
           /\ Len(searches'[i].responses) = 1
           /\ \A r \in {searches'[i].responses[1]} :
                 /\ r.status = 200
                 /\ r.error = TRUE
                 /\ r.shops = Some(generateMockShops)
                 /\ Len(Get(r.shops)) > 0

\* C19: a fetch that fails before the timeout is answered with the mock
\* shops and an error field, with a success status
C19_FailureAnswered == [][C19_FailureStep]_vars

\* a request that found no entry has been answered with the mock shops
\* and the error field after a status request of its fetch failed, its
\* timer still set
C19_Witness ==
    \E i \in DOMAIN searches :
        /\ searches[i].cachedResults = Absent
        /\ searches[i].fetch = "rejected"
        /\ searches[i].attempts > 0
        /\ searches[i].timer = "set"
        /\ searches[i].responses = <<ErrorResponse>>
\* two requests for one key that both found the cache cold, whose
\* fetches both wrote the file and have both been fulfilled, i first
BothFetched(i, j) ==
    /\ i \in Fulfilled /\ j \in Fulfilled
    /\ i # j
    /\ searches[j].location \in SameKey[searches[i].location]
    /\ searches[i].cachedResults = Absent
    /\ searches[j].cachedResults = Absent
    /\ searches[i].saved /\ searches[j].saved
    /\ searches[i].finished < searches[j].finished

C20_WholeListOfOneFetch ==
    /\ \A key \in DOMAIN cacheFile :
          \E i \in Putters :
              /\ getCacheKey(searches[i].location) = key
              /\ cacheFile[key].shops = searches[i].shops
    /\ \A key \in DOMAIN dynamoTable :
          \E i \in Putters :
              /\ getCacheKey(searches[i].location) = key
              /\ dynamoTable[key].shops = searches[i].shops

\* C20: a step that changes the file is the file write of a fetch and
\* leaves the shops of that fetch under its key; a step that changes
\* DynamoDB is the PutCommand of a fetch and leaves the shops of that
\* fetch under its key
C20_LastWriteStep ==
    /\ cacheFile' # cacheFile =>
          \E i \in DOMAIN searches :
              /\ searches[i].fetch = "poll"
              /\ searches'[i].fetch \in {"put", "fulfilled"}
              /\ searches'[i].saved
              /\ cacheFile'[getCacheKey(searches[i].location)].shops
                     = searches'[i].shops
    /\ dynamoTable' # dynamoTable =>
          \E i \in DOMAIN searches :
              /\ searches[i].fetch = "put"
              /\ searches'[i].fetch = "fulfilled"
              /\ dynamoTable'[getCacheKey(searches[i].location)].shops
                     = searches[i].shops

Quoted(results) ==
    {j \in DOMAIN results :
        IsPresent(results[j].quotation) /\ Get(results[j].quotation) > 0}

\* [($600, shop 1), ($450, shop 2), (no quote, shop 3)]
ExampleResults ==
    [i \in 1..3 |->
        [callId |-> CallId(i), shopName |-> i, status |-> "ended",
         quotation |-> <<Some(600), Some(450), Absent>>[i]]]

\* C21: ranked holds exactly the results of the input with a price above
\* 0, each once, in ascending order of price, results of equal price in
\* input order; for the example it is shop 2, shop 1
C21_RankedSortedStable ==
    \A k \in DOMAIN rankOut :
        \A input \in {rankOut[k].input}, ranked \in {rankOut[k].output.ranked} :
            /\ \A i \in DOMAIN ranked :
                  /\ ranked[i].shopName \in Quoted(input)
                  /\ ranked[i] = input[ranked[i].shopName]
            /\ \A j \in Quoted(input) :
                  Cardinality({i \in DOMAIN ranked :
                                  ranked[i].shopName = j}) = 1
            /\ Len(ranked) = Cardinality(Quoted(input))
            /\ \A i \in DOMAIN ranked, i2 \in DOMAIN ranked :
                  i < i2 =>
                     \/ Get(ranked[i].quotation) < Get(ranked[i2].quotation)
                     \/ /\ Get(ranked[i].quotation) = Get(ranked[i2].quotation)
                        /\ ranked[i].shopName < ranked[i2].shopName
            /\ input = ExampleResults =>
                  ranked = <<ExampleResults[2], ExampleResults[1]>>

\* the example has been ranked
C21_Witness ==
    /\ Len(rankOut) = 1
    /\ rankOut[1].input = ExampleResults
    /\ Len(rankOut[1].output.ranked) = 2
    /\ rankOut[1].output.ranked[1].shopName = 2
    /\ rankOut[1].output.ranked[2].shopName = 1

\* C22: bestOption is the first element of ranked, its price is the
\* lowest price above 0 of the input, and it is absent exactly when no
\* result of the input has a price above 0
C22_BestOptionIsCheapest ==
    \A k \in DOMAIN rankOut :
        \A input \in {rankOut[k].input}, output \in {rankOut[k].output} :
            /\ IsPresent(output.bestOption) <=> Quoted(input) # {}
            /\ IsPresent(output.bestOption) =>
                  /\ output.ranked # <<>>
                  /\ Get(output.bestOption) = output.ranked[1]
                  /\ Get(output.bestOption).shopName \in Quoted(input)
                  /\ \A j \in Quoted(input) :
                        Get(Get(output.bestOption).quotation)
                            <= Get(input[j].quotation)
            /\ input = <<>> => output.bestOption = Absent

\* results without a price above 0, one of them a quotation with price
\* 0, have been ranked: there is no bestOption
C22_Witness ==
    /\ Len(rankOut) = 1
    /\ Len(rankOut[1].input) = 2
    /\ rankOut[1].input[1].quotation = Some(0)
    /\ rankOut[1].input[2].quotation = Absent
    /\ rankOut[1].output.bestOption = Absent
    /\ rankOut[1].output.ranked = <<>>

\* C23: when ranked is not empty the summary gives the length of ranked
\* as the number of quotes received, has one line per ranked result in
\* ranked order with its shop and its price, and recommends the shop of
\* bestOption; when ranked is empty it says that no quotations were
\* obtained, gives no number of quotes and names no shop
C23_SummaryMatchesRanked ==
    \A k \in DOMAIN rankOut :
        \A output \in {rankOut[k].output} :
            \A ranked \in {output.ranked}, summary \in {output.summary} :
                /\ summary.analyzed = Len(rankOut[k].input)
                /\ Len(summary.lines) = Len(ranked)
                /\ \A i \in DOMAIN ranked :
                      /\ summary.lines[i].shopName = ranked[i].shopName
                      /\ summary.lines[i].price.dollars
                             = Get(ranked[i].quotation)
                      /\ summary.lines[i].price.cents = 0
                /\ IF ranked = <<>>
                   THEN /\ summary.noQuotations
                        /\ summary.received = Absent
                        /\ summary.recommended = Absent
                   ELSE /\ ~summary.noQuotations
                        /\ summary.received = Some(Len(ranked))
                        /\ summary.recommended
                               = Some(Get(output.bestOption).shopName)

\* the summary of the example says 2 quotes received, lists shop 2 at 450
\* and shop 1 at 600, and recommends shop 2
C23_Witness ==
    /\ Len(rankOut) = 1
    /\ rankOut[1].input = ExampleResults
    /\ rankOut[1].output.summary.received = Some(2)
    /\ rankOut[1].output.summary.recommended = Some(2)
    /\ rankOut[1].output.summary.lines =
           <<[shopName |-> 2, price |-> [dollars |-> 450, cents |-> 0]],
             [shopName |-> 1, price |-> [dollars |-> 600, cents |-> 0]]>>

SessionAccepted ==
    /\ starts' = starts + 1
    /\ response'.kind = "call-shops"
    /\ response'.code = 200

BookingAccepted ==
    /\ starts' = starts + 1
    /\ response'.kind = "book-appointment"
    /\ response'.code = 200

\* C25 as stated: the id an accepted start request gets is the id of no
\* session, of no booking, that exists, so that every entry of the maps
\* still names the object it named before the step
C25_NewIdIsFresh ==
    [][/\ SessionAccepted =>
             /\ response'.sessionId \notin DOMAIN activeSessions
             /\ \A id \in DOMAIN activeSessions :
                    activeSessions'[id] = activeSessions[id]
       /\ BookingAccepted =>
             /\ response'.bookingId \notin DOMAIN activeBookings
             /\ \A id \in DOMAIN activeBookings :
                    activeBookings'[id] = activeBookings[id]]_vars

\* C25: the id of an accepted start request is made of Date.now() alone
C25_IdIsTheClock ==
    [][/\ SessionAccepted => response'.sessionId[2] = now'
       /\ BookingAccepted => response'.bookingId[2] = now']_vars
\* C26 as stated: a session holds one call id per shop, and in live mode
\* callIds[i] names the call that was placed to shops[i]
C26_OneCallIdPerShop ==
    \A s \in Sessions :
        /\ Len(s.callIds) = Len(s.shops)
        /\ vapiClient =>
              \A i \in 1..Len(s.callIds) :
                  remote[s.callIds[i][2]].shopName = s.shops[i]

\* C26: in live mode the call ids are those of the calls that were created,
\* in the order of the shops they were placed to, and no more than the shops
C26_CallIdsOfCreatedCalls ==
    vapiClient =>
        \A s \in Sessions :
            /\ Len(s.callIds) <= Len(s.shops)
            /\ \A i \in 1..Len(s.callIds) :
                   \E j \in i..Len(s.shops) :
                       remote[s.callIds[i][2]].shopName = s.shops[j]
\* the session objects of the process, reachable from the map or not
SessionObjects == {sessionHeap[r] : r \in Refs} \ {NoObject}

\* C27: a session object, a session of the file and a status response
\* carry an analysis only with status completed
C27_AnalysisOnlyWhenCompleted ==
    /\ \A s \in SessionObjects :
           IsPresent(s.analysis) => s.status = "completed"
    /\ \A id \in DOMAIN callSessionsFile :
           IsPresent(callSessionsFile[id].analysis) =>
               callSessionsFile[id].status = "completed"
    /\ (/\ response.kind = "call-status"
        /\ response.code = 200
        /\ IsPresent(response.analysis)) => response.status = "completed"

\* a status response for a failed session that returns the results of the
\* last poll and no analysis
C27_Witness ==
    /\ response.kind = "call-status"
    /\ response.code = 200
    /\ response.status = "failed"
    /\ IsPresent(response.results)
    /\ response.analysis = Absent
BookingObjects == {bookingHeap[r] : r \in Refs} \ {NoObject}

\* the results the simulation writes: one ended call with a quotation per
\* shop
Synthetic(results) ==
    \A i \in 1..Len(results) :
        /\ results[i].callId = MockCallId(i)
        /\ results[i].status = "ended"
        /\ results[i].quotation = Some(500 + (i - 1) * 200)

\* C28, in every state: no call was created at the call service, a start
\* request is answered 200 / calling, no session and no booking is failed,
\* and a completed one carries synthetic results
C28_NoFailureNoRemoteCall ==
    /\ remote = <<>>
    /\ response.kind \in {"call-shops", "book-appointment"} =>
           response.code = 200 /\ response.status = "calling"
    /\ \A s \in SessionObjects :
           /\ s.status \in {"calling", "completed"}
           /\ s.status = "completed" =>
                 /\ IsPresent(s.results)
                 /\ Synthetic(Get(s.results))
                 /\ IsPresent(s.analysis)
    /\ \A b \in BookingObjects :
           /\ b.status \in {"calling", "completed"}
           /\ b.status = "completed" =>
                 /\ IsPresent(b.result)
                 /\ Get(b.result).appointmentBooked

\* C28, in every step: a start request stores its session with status
\* calling, and a session or booking leaves status calling only in the
\* step of a timer armed for its id
C28_CallingUntilTimer ==
    /\ SessionAccepted =>
           sessionHeap'[activeSessions'[response'.sessionId]].status = "calling"
    /\ BookingAccepted =>
           bookingHeap'[activeBookings'[response'.bookingId]].status = "calling"
    /\ \A id \in DOMAIN activeSessions :
           (/\ sessionHeap[activeSessions[id]].status = "calling"
            /\ \/ id \notin DOMAIN activeSessions'
               \/ sessionHeap'[activeSessions'[id]].status # "calling")
           => /\ id \in DOMAIN activeSessions'
              /\ sessionHeap'[activeSessions'[id]].status = "completed"
              /\ \E r \in Refs : /\ callTask[r].pc = "timer"
                                 /\ callTask[r].sessionId = id
                                 /\ callTask'[r] = NoTask
    /\ \A id \in DOMAIN activeBookings :
           (/\ bookingHeap[activeBookings[id]].status = "calling"
            /\ \/ id \notin DOMAIN activeBookings'
               \/ bookingHeap'[activeBookings'[id]].status # "calling")
           => /\ id \in DOMAIN activeBookings'
              /\ bookingHeap'[activeBookings'[id]].status = "completed"
              /\ \E r \in Refs : /\ bookingTask[r].pc = "timer"
                                 /\ bookingTask[r].bookingId = id
                                 /\ bookingTask'[r] = NoTask

\* C28, eventually: the session, the booking, of an id becomes completed
C28_EventuallyCompleted ==
    /\ \A id \in {<<"mock", t>> : t \in 0..MaxClock} :
           (id \in DOMAIN activeSessions)
              ~> (/\ id \in DOMAIN activeSessions
                  /\ sessionHeap[activeSessions[id]].status = "completed")
    /\ \A id \in BookingIds :
           (id \in DOMAIN activeBookings)
              ~> (/\ id \in DOMAIN activeBookings
                  /\ bookingHeap[activeBookings[id]].status = "completed")

\* C28: without voice-call credentials a start request never fails and
\* creates no remote call; the session (booking) is stored with status
\* calling, keeps it until its timer fires, then is completed with
\* synthetic results (appointmentBooked true), and is never failed
C28_SimulationCompletes ==
    /\ []C28_NoFailureNoRemoteCall
    /\ [][C28_CallingUntilTimer]_vars
    /\ C28_EventuallyCompleted

\* a simulated session with two quotes and a simulated booking, both
\* completed, with no call at the call service
C28_Witness ==
    /\ ~vapiClient
    /\ remote = <<>>
    /\ \E s \in Sessions :
           /\ s.status = "completed"
           /\ Len(Get(s.results)) = 2
           /\ Synthetic(Get(s.results))
    /\ \E b \in Bookings :
           /\ b.status = "completed"
           /\ Get(b.result).appointmentBooked
C29_GetCallFailureStep ==
    \A r \in Refs :
        callTask[r].pc = "get" =>
            \A ok \in BOOLEAN :
                PollCallsGetCallFails(r, ok) =>
                    \/ /\ callTask'[r].pc = "sleep"
                       /\ sessionHeap'[r] = sessionHeap[r]
                    \/ /\ callTask'[r] = NoTask
                       /\ callTask[r].elapsed = MaxWaitPolls
                       /\ sessionHeap'[r].status = "failed"

\* getBookingResult throws in a poll loop: the same
C29_GetBookingResultFailureStep ==
    \A r \in Refs :
        bookingTask[r].pc = "get" =>
            \A ok \in BOOLEAN :
                PollBookingGetResultFails(r, ok) =>
                    \/ /\ bookingTask'[r].pc = "sleep"
                       /\ bookingHeap'[r] = bookingHeap[r]
                    \/ /\ bookingTask'[r] = NoTask
                       /\ bookingTask[r].elapsed = MaxWaitPolls
                       /\ bookingHeap'[r].status = "failed"

\* createBookingCall throws: the request is answered 500 and no booking is
\* stored
C29_BookingCreationFailureStep ==
    (vapiClient /\ starts' = starts + 1) =>
        \A t \in 0..MaxClock :
            BookAppointmentLive(t, FALSE, TRUE) =>
                /\ response'.kind = "book-appointment"
                /\ response'.code = 500
                /\ UNCHANGED bookingVars

\* createCall throws for some shops: the session is created with the calls
\* that were created and its poll loop started; the request is answered 200
C29_CallCreationFailureStep ==
    (vapiClient /\ SessionAccepted) =>
        \E r \in {activeSessions'[response'.sessionId]} :
            /\ Len(sessionHeap'[r].callIds) = Len(remote') - Len(remote)
            /\ Len(sessionHeap'[r].callIds) <= Len(sessionHeap'[r].shops)
            /\ sessionHeap'[r].status = "calling"
            /\ callTask'[r].pc = "sleep"

C30_FailedCarriesNoResults ==
    /\ \A s \in SessionObjects : s.status = "failed" => s.results = Absent
    /\ (response.kind = "call-status" /\ response.code = 200
        /\ response.status = "failed") => response.results = Absent

\* the outcome "no quotes obtained": completed, every call terminal, an
\* analysis with an empty ranked list, no best option and the summary that
\* no quotations were obtained
NoQuotesObtained(s) ==
    /\ s.status = "completed"
    /\ IsPresent(s.results)
    /\ AllTerminal(Get(s.results))
    /\ Quoted(Get(s.results)) = {}
    /\ IsPresent(s.analysis)
    /\ Get(s.analysis).ranked = <<>>
    /\ Get(s.analysis).bestOption = Absent
    /\ Get(s.analysis).summary.noQuotations

\* the outcome "call session failed": failed, no analysis, and results, if
\* any, with a call that was not seen to end
SessionFailed(s) ==
    /\ s.status = "failed"
    /\ s.analysis = Absent
    /\ IsPresent(s.results) => ~AllTerminal(Get(s.results))

\* C30: a completed session without a valid quotation shows the outcome
\* "no quotes obtained", a failed session the outcome "call session
\* failed", in the session and in the status response; no session shows
\* both
C30_OutcomesNotCollapsed ==
    /\ \A s \in SessionObjects :
           /\ (/\ s.status = "completed"
               /\ IsPresent(s.results)
               /\ Quoted(Get(s.results)) = {}) => NoQuotesObtained(s)
           /\ s.status = "failed" => SessionFailed(s)
           /\ ~(NoQuotesObtained(s) /\ SessionFailed(s))
    /\ (response.kind = "call-status" /\ response.code = 200) =>
           /\ (/\ response.status = "completed"
               /\ IsPresent(response.results)
               /\ Quoted(Get(response.results)) = {}) => NoQuotesObtained(response)
           /\ response.status = "failed" => SessionFailed(response)

\* a status response for a session whose two calls ended without a
\* quotation
C30_Witness ==
    /\ response.kind = "call-status"
    /\ response.code = 200
    /\ NoQuotesObtained(response)
    /\ Len(Get(response.results)) = 2
    /\ \A i \in 1..2 : Get(response.results)[i].status = "ended"
\* the status requests that returned a terminal status
TerminalChecks ==
    {k \in 1..Len(waitLoop.observed) :
        waitLoop.observed[k].status \in TerminalOf(waitLoop.kind)}

\* the maximum wait had not elapsed when the k-th status request returned
InTime(k) ==
    IF waitLoop.kind = "yutori" THEN k <= MaxWaitAttempts
    ELSE waitLoop.observed[k].at < MaxWait

\* C31 as stated, last part: a loop that ended without a status check that
\* observed a terminal status before the maximum wait elapsed ended with
\* the timeout error
C31_NoTerminalInTimeIsTimeout ==
    (/\ waitLoop.pc = "done"
     /\ \A k \in TerminalChecks : ~InTime(k)) => waitLoop.outcome = "timeout"

\* C31: a status check that observes a terminal status is the last request
\* of the loop and settles it with that status; the timeout error is
\* thrown by the loop head only, when the clock (the attempts) ran out and
\* no check observed a terminal status; a loop that ended otherwise ended
\* with the error of its last status request
C31_EndsAtFirstTerminalCheck ==
    waitLoop.pc # "none" =>
        /\ \A k \in TerminalChecks :
               /\ k = Len(waitLoop.observed)
               /\ waitLoop.gets = k
               /\ waitLoop.pc = "done"
               /\ waitLoop.outcome \in {"returned", "failed"}
        /\ waitLoop.outcome \in {"returned", "failed"} =>
               Len(waitLoop.observed) \in TerminalChecks
        /\ waitLoop.outcome = "timeout" =>
               /\ TerminalChecks = {}
               /\ waitLoop.gets = Len(waitLoop.observed)
               /\ IF waitLoop.kind = "yutori"
                  THEN Len(waitLoop.observed) = MaxWaitAttempts
                  ELSE waitLoop.elapsed >= MaxWait
        /\ waitLoop.outcome = "error" =>
               /\ TerminalChecks = {}
               /\ waitLoop.gets = Len(waitLoop.observed) + 1
        /\ (waitLoop.pc = "done") = (waitLoop.outcome # "none")

\* the second status check observed the failure of the task and the loop
\* ended there, with two status requests made
C31_Witness ==
    /\ waitLoop.pc = "done"
    /\ waitLoop.kind \in WaitKinds
    /\ waitLoop.outcome = "returned"
    /\ waitLoop.gets = 2
    /\ Len(waitLoop.observed) = 2
    /\ waitLoop.observed[1].status = NonTerminalOf(waitLoop.kind)
    /\ waitLoop.observed[2].status = "failed"
\* the status requests of the poll loop r that are in flight: indexes into
\* callIds of its session
PendingGetCalls(tasks, r) ==
    IF tasks[r].pc = "get" THEN {tasks[r].i} ELSE {}

\* the status request of the booking poll loop r that is in flight
PendingGetBookingResults(tasks, r) ==
    IF tasks[r].pc = "get" THEN {bookingHeap[r].callId} ELSE {}

\* C32, in every state: a loop has at most one status request in flight;
\* it is for callIds[i] and the requests for the call ids before it in
\* callIds have returned, in that order
C32_OneRequestInOrder ==
    \A r \in Refs :
        /\ Cardinality(PendingGetCalls(callTask, r)) <= 1
        /\ Cardinality(PendingGetBookingResults(bookingTask, r)) <= 1
        /\ \A i \in PendingGetCalls(callTask, r) :
               /\ i \in 1..Len(sessionHeap[r].callIds)
               /\ Len(callTask[r].results) = i - 1
               /\ \A k \in 1..(i - 1) :
                      callTask[r].results[k].callId = sessionHeap[r].callIds[k]

\* C32, in every step: the request a loop issues is for the first call id
\* when none was in flight, for the next call id when one has returned
C32_NextRequestStep ==
    \A r \in Refs :
        \A j \in PendingGetCalls(callTask', r) :
            /\ PendingGetCalls(callTask, r) = {} => j = 1
            /\ \A i \in PendingGetCalls(callTask, r) : j = i \/ j = i + 1

\* C32: the status checks of one poll loop are sequential and follow the
\* order of callIds
C32_SequentialChecks ==
    /\ []C32_OneRequestInOrder
    /\ [][C32_NextRequestStep]_vars

\* the status request for the second call id of a session is in flight
\* after the one for the first has returned
C32_Witness ==
    \E r \in Refs :
        /\ PendingGetCalls(callTask, r) = {2}
        /\ Len(sessionHeap[r].callIds) = 2
        /\ Len(callTask[r].results) = 1
        /\ callTask[r].results[1].callId = sessionHeap[r].callIds[1]
\* the step is one of the poll loop that holds the session object r
PollStepOf(r) == Polling(callTask, r) /\ callTask'[r] # callTask[r]

\* the sessions other than that of r: objects with another session id
OtherSessions(r) ==
    {q \in Refs : /\ sessionHeap[q] # NoObject
                  /\ sessionHeap[q].sessionId # sessionHeap[r].sessionId}

\* the record of a session id in the file, if there is one
FileRecord(file, id) == IF id \in DOMAIN file THEN Some(file[id]) ELSE Absent

SessionStays(id) ==
    \E s \in {sessionHeap[activeSessions[id]]} :
        s.status \in {"completed", "failed"} =>
            /\ id \in DOMAIN activeSessions'
            /\ sessionHeap'[activeSessions'[id]].status = s.status
            /\ s.status = "completed" =>
                  /\ sessionHeap'[activeSessions'[id]].results = s.results
                  /\ sessionHeap'[activeSessions'[id]].analysis = s.analysis

BookingStays(id) ==
    \E b \in {bookingHeap[activeBookings[id]]} :
        b.status \in {"completed", "failed"} =>
            /\ id \in DOMAIN activeBookings'
            /\ bookingHeap'[activeBookings'[id]].status = b.status
            /\ b.status = "completed" =>
                  bookingHeap'[activeBookings'[id]].result = b.result

SessionNotReplaced(id) ==
    \/ starts' = starts
    \/ /\ id \in DOMAIN activeSessions'
       /\ activeSessions'[id] = activeSessions[id]

BookingNotReplaced(id) ==
    \/ starts' = starts
    \/ /\ id \in DOMAIN activeBookings'
       /\ activeBookings'[id] = activeBookings[id]

\* every start request so far was given an id of its own and its session
\* or booking is in memory: there are as many of them as start requests
NoIdGivenTwice ==
    Cardinality(DOMAIN activeSessions) + Cardinality(DOMAIN activeBookings)
        = starts

C35_FirstMinLimitTwoShops ==
    \A k \in DOMAIN callPlan :
        \E p \in {callPlan[k]} :
            \E m \in {Max(0, Min(Min(LimitOf(p.limit), 2), Len(p.shops)))} :
                /\ Len(p.shopsToCall) <= 2
                /\ Len(p.attempted) <= 2
                /\ p.shopsToCall = SubSeq(p.shops, 1, m)
                /\ p.attempted = SubSeq(p.shops, 1, m)

\* C35 for a limit that is absent or not negative: the shops selected and
\* called are the first min(limit, 2) shops of the list
C35_NonNegativeLimit ==
    \A k \in DOMAIN callPlan :
        \E p \in {callPlan[k]} :
            LimitOf(p.limit) >= 0 =>
                \E m \in {Min(Min(LimitOf(p.limit), 2), Len(p.shops))} :
                    /\ p.shopsToCall = SubSeq(p.shops, 1, m)
                    /\ p.attempted = SubSeq(p.shops, 1, m)
\* C36 for call sessions: the step in which getCall throws stores nothing
\* of the iteration; before the time runs out it leaves the session, the
\* map and the file as they were and the loop sleeps again with an empty
\* results array; the status becomes failed only when the time has run out
C36_CallFailureStep ==
    \A r \in Refs :
        callTask[r].pc = "get" =>
            \A ok \in BOOLEAN :
                PollCallsGetCallFails(r, ok) =>
                    /\ sessionHeap'[r].results = sessionHeap[r].results
                    /\ sessionHeap'[r].analysis = sessionHeap[r].analysis
                    /\ IF callTask[r].elapsed < MaxWaitPolls
                       THEN /\ sessionHeap'[r] = sessionHeap[r]
                            /\ UNCHANGED <<activeSessions, callSessionsFile,
                                           writeFailures>>
                            /\ callTask'[r].pc = "sleep"
                            /\ callTask'[r].results = <<>>
                            /\ callTask'[r].elapsed = callTask[r].elapsed
                       ELSE /\ sessionHeap'[r].status = "failed"
                            /\ callTask'[r] = NoTask

\* C36 for bookings: the same when getBookingResult throws
C36_BookingFailureStep ==
    \A r \in Refs :
        bookingTask[r].pc = "get" =>
            \A ok \in BOOLEAN :
                PollBookingGetResultFails(r, ok) =>
                    /\ bookingHeap'[r].result = bookingHeap[r].result
                    /\ IF bookingTask[r].elapsed < MaxWaitPolls
                       THEN /\ bookingHeap'[r] = bookingHeap[r]
                            /\ UNCHANGED <<activeBookings, bookingSessionsFile,
                                           writeFailures>>
                            /\ bookingTask'[r].pc = "sleep"
                            /\ bookingTask'[r].elapsed = bookingTask[r].elapsed
                       ELSE /\ bookingHeap'[r].status = "failed"
                            /\ bookingTask'[r] = NoTask

\* C36: a failed status request stores nothing and the loop goes on; only
\* the time-out sets the status to failed
C36_FailedRequestStoresNothing ==
    [][C36_CallFailureStep /\ C36_BookingFailureStep]_vars

\* a poll loop sleeps after an iteration whose status request failed: the
\* session has calls, is calling, and holds no results
C36_Witness ==
    \E r \in Refs :
        /\ callTask[r].pc = "sleep"
        /\ callTask[r].elapsed >= 1
        /\ callTask[r].elapsed < MaxWaitPolls
        /\ sessionHeap[r].callIds # <<>>
        /\ sessionHeap[r].status = "calling"
        /\ sessionHeap[r].results = Absent
\* C37: the step in which the fetch of a request fails during the race
\* answers with the mock shops, an error field and no cached flag,
\* whatever the lookup of the request returned, and leaves both cache
\* tiers and the cache writes as they were
C37_ErrorStep ==
    \A i \in DOMAIN searches :
        (searches[i].pc = "race" /\ searches'[i].fetch = "rejected")
        => /\ searches'[i].responses = <<ErrorResponse>>
           /\ \A r \in {searches'[i].responses[1]} :
                 /\ r.shops = Some(generateMockShops)
                 /\ r.error = TRUE
                 /\ r.cached = Absent
                 /\ r.cache_timestamp = Absent
                 /\ IsPresent(searches[i].cachedResults) =>
                       r.shops # Some(Get(searches[i].cachedResults).shops)
           /\ UNCHANGED <<cacheFile, dynamoTable, cachePuts>>

C37_ErrorPathIgnoresCache == [][C37_ErrorStep]_vars

\* a request whose lookup returned an entry with shops was answered with
\* the mock shops and the error field after its fetch failed; the entry
\* is still in the file
C37_Witness ==
    \E i \in DOMAIN searches :
        /\ searches[i].fetch = "rejected"
        /\ searches[i].timer = "set"
        /\ IsPresent(searches[i].cachedResults)
        /\ Get(searches[i].cachedResults).shops # <<>>
        /\ searches[i].responses = <<ErrorResponse>>
        /\ getCacheKey(searches[i].location) \in DOMAIN cacheFile
        /\ cacheFile[getCacheKey(searches[i].location)].shops
               = Get(searches[i].cachedResults).shops
\* C38: the step in which the timer of a request fires answers with the
\* entry the lookup of that request returned when the request started
\* (the mock shops when it returned none, or one without shops), whatever
\* the cache holds for the location at that moment
C38_TimeoutStep ==
    \A i \in DOMAIN searches :
        (searches[i].timer = "set" /\ searches'[i].timer = "fired")
        => /\ searches'[i].responses
                 = <<TimeoutResponse(searches[i].cachedResults)>>
           /\ searches'[i].cachedResults = searches[i].cachedResults
           /\ searches[i].get # 0 =>
                 searches[i].cachedResults = cacheGets[searches[i].get].result

\* between the lookup and the response no step changes what the request
\* read
C38_ReadOnce ==
    \A i \in DOMAIN searches :
        searches[i].pc = "race" =>
            searches'[i].cachedResults = searches[i].cachedResults

C38_TimeoutServesEntryReadAtStart ==
    [][C38_TimeoutStep /\ C38_ReadOnce]_vars

\* a request found no entry and timed out with the mock shops although
\* the fetch of another request for the same key had put shops into the
\* local cache by then
C38_Witness ==
    \E i \in DOMAIN searches, j \in DOMAIN searches :
        /\ i # j
        /\ getCacheKey(searches[i].location) = getCacheKey(searches[j].location)
        /\ searches[i].timer = "fired"
        /\ searches[i].cachedResults = Absent
        /\ searches[i].responses = <<TimeoutResponse(Absent)>>
        /\ searches[j].fetch = "fulfilled"
        /\ searches[j].finished = 1
        /\ searches[i].fetch \in {"create", "poll"}
        /\ getCacheKey(searches[i].location) \in DOMAIN cacheFile
        /\ cacheFile[getCacheKey(searches[i].location)].shops # <<>>
\* the requests whose fetch has called updateCacheAsync with a file write
\* that succeeded
Written == {i \in DOMAIN searches :
               searches[i].fetch \in {"put", "fulfilled"} /\ searches[i].saved}

\* the fetch of request i was the last to write the file under its key
\* (updateCacheAsync calls are numbered in the order they are made)
LastWriterOfKey(i) ==
    \A k \in Written :
        getCacheKey(searches[k].location) = getCacheKey(searches[i].location)
        => searches[k].put <= searches[i].put

\* C39: when the fetches of two requests for different keys have both
\* written the file, the file holds an entry under each key, whichever
\* fetch completed first, with the shops of the fetch that wrote last
\* under that key: no write under one key removes or changes the entry
\* of the other
C39_BothEntries ==
    \A i \in Written, j \in Written :
        getCacheKey(searches[i].location) # getCacheKey(searches[j].location)
        => /\ getCacheKey(searches[i].location) \in DOMAIN cacheFile
           /\ LastWriterOfKey(i) =>
                 /\ cacheFile[getCacheKey(searches[i].location)].shops
                        = searches[i].shops
                 /\ cacheFile[getCacheKey(searches[i].location)].location
                        = searches[i].location

\* C39: the step in which a fetch calls updateCacheAsync reads the file
\* and writes it in the same step: every entry of another key the file
\* held just before is in the file just after
C39_UpdateStep ==
    \A i \in DOMAIN searches :
        (searches[i].fetch = "poll"
         /\ searches'[i].fetch \in {"put", "fulfilled"})
        => /\ \A key \in DOMAIN cacheFile :
                 key # getCacheKey(searches[i].location)
                 => key \in DOMAIN cacheFile' /\ cacheFile'[key] = cacheFile[key]
           /\ DOMAIN cacheFile' \subseteq
                  DOMAIN cacheFile \cup {getCacheKey(searches[i].location)}

C39_NoLostUpdate == []C39_BothEntries /\ [][C39_UpdateStep]_vars

\* the fetch of the request that started second completed first, the two
\* requests have different keys, and the file holds the shops of both
C39_Witness ==
    /\ Len(searches) = 2
    /\ getCacheKey(searches[1].location) # getCacheKey(searches[2].location)
    /\ Written = {1, 2}
    /\ searches[1].finished = 2
    /\ searches[2].finished = 1
    /\ searches[1].shops # searches[2].shops
    /\ cacheFile[getCacheKey(searches[1].location)].shops = searches[1].shops
    /\ cacheFile[getCacheKey(searches[2].location)].shops = searches[2].shops
\* the research shops and the browsing shops that have the name of shop,
\* compared in lower case
SameName(shops, shop) ==
    {k \in DOMAIN shops : ShopKey(shops[k]) = ShopKey(shop)}

\* the greatest and the least of a set of indices
LastOf(S) == CHOOSE k \in S : \A j \in S : j <= k
FirstOf(S) == CHOOSE k \in S : \A j \in S : k <= j

\* C40: the merged list of a comprehensive search has no two shops whose
\* names are equal in lower case; every shop of either search has its
\* name, in lower case, in it; a shop of it whose name the research search
\* found is a research record (the last with that name), any other is the
\* first browsing record with that name; total_found is its length
C40_MergedByName ==
    comprehensive.pc = "done" =>
        \E research \in {comprehensive.researchResults},
           browsing \in {comprehensive.browsingResults},
           merged \in {comprehensive.result.shops} :
            /\ \A a \in DOMAIN merged, b \in DOMAIN merged :
                   ShopKey(merged[a]) = ShopKey(merged[b]) => a = b
            /\ \A shop \in Range(research) \cup Range(browsing) :
                   SameName(merged, shop) # {}
            /\ \A a \in DOMAIN merged :
                   IF SameName(research, merged[a]) # {}
                   THEN merged[a] = research[LastOf(SameName(research, merged[a]))]
                   ELSE /\ SameName(browsing, merged[a]) # {}
                        /\ merged[a] = browsing[FirstOf(SameName(browsing, merged[a]))]
            /\ comprehensive.result.total_found = Len(merged)
            /\ Len(merged) <= Len(research) + Len(browsing)

\* both searches found a shop under names that differ in case only, with
\* different records, and the browsing search found another shop too
C40_Witness ==
    /\ comprehensive.pc = "done"
    /\ \E r \in DOMAIN comprehensive.researchResults,
          b \in DOMAIN comprehensive.browsingResults :
           /\ comprehensive.researchResults[r].shop_name
                  # comprehensive.browsingResults[b].shop_name
           /\ ShopKey(comprehensive.researchResults[r])
                  = ShopKey(comprehensive.browsingResults[b])
           /\ comprehensive.researchResults[r]
                  \in Range(comprehensive.result.shops)
           /\ comprehensive.browsingResults[b]
                  \notin Range(comprehensive.result.shops)
    /\ Len(comprehensive.browsingResults) = 2
    /\ comprehensive.result.total_found = 2
====
